---- MODULE Spec2Model ----
(***************************************************************************)
(* Model of peak.events.stm: STMHistory (atomic block, undo log, commit   *)
(* hooks, managers) and Controller (layered queues, run, retry, read and  *)
(* write tracking), driven by user code that calls the controller API.    *)
(***************************************************************************)
EXTENDS Integers, Sequences, FiniteSets, TLC

\* ---------------------------------------------------------------- bounds
MaxOps == 3
MaxLayer == 2

\* ------------------------------------------------------- the test fixture
Listeners == {"t0", "t1", "t2"}
\* the listeners that the user code of one block works on
Pair == {"t0", "t1"}
Subjects == {"s1", "s2"}
Managers == {"m_plain", "m_raise", "m_sched", "m_nest"}
Hooks == {"h_log", "h_raise", "h_sched", "h_atomic"}
UndoFns == {"u_log", "u_undo"}
Values == {0, 1}

None == "None"
NoSave == 0 - 1
NoLayer == 0 - 1
NoNotified == {None}

\* the cells: the Value cell s2, and the listeners as rule cells, which
\* other rules can read
\* the Value cells that Time.reached creates, one for each moment
Events == {"e1", "e2"}
AllSubjects == Subjects \cup Listeners \cup Events
\* trellis._sentinel as the value of _set_by, and as the value of _reset
Sentinel == "sentinel"
NoReset == 0 - 2
\* the value None of a cell
NoneVal == 0 - 1
\* no value was assigned
NotSet == 0 - 3

\* subject.manager: s1 carries a manager, s2 does not
ManagerOf(s) == IF s = "s1" THEN "m_plain" ELSE None

\* AbstractSubject.layer (class attribute)
SubjectLayer == 0

\* Cell.dirty: the cell was not set, or was set by its own rule
Cell_dirty(c, l) == c.set_by[l] = Sentinel \/ c.set_by[l] = l

\* AbstractListener.dirty, ConstantRule.dirty and Cell.dirty
dirty(c, l) ==
    IF c.cls[l] = "Cell" THEN Cell_dirty(c, l)
    ELSE c.cls[l] # "ConstantRule"

\* listener scheduled by the h_sched hook and by m_sched.__exit__
HookTarget == "t1"

\* TestListener.run before a test assigns it: a rule that does nothing
NoProg == [l \in Listeners |-> [r |-> {}, w |-> {}]]

\* the rules a test may assign: each reads and changes some subjects
Progs ==
    {p \in [Listeners -> [r : SUBSET Subjects,
                          w : {W \in SUBSET Subjects : Cardinality(W) <= 1}]] :
        /\ p["t2"].r = {}
        /\ \A l \in Listeners : p[l].r \cap p[l].w = {}}

\* ------------------------------------------------------------ sequences
Last(s) == s[Len(s)]
Front(s) == SubSeq(s, 1, Len(s) - 1)
Range(s) == {s[i] : i \in 1..Len(s)}
Swap(s, i, j) == [s EXCEPT ![i] = s[j], ![j] = s[i]]

RECURSIVE RemoveFirst(_, _)
RemoveFirst(s, x) ==
    IF s = <<>> THEN <<>>
    ELSE IF Head(s) = x THEN Tail(s)
    ELSE <<Head(s)>> \o RemoveFirst(Tail(s), x)

RECURSIVE InsertSorted(_, _)
InsertSorted(s, x) ==
    IF s = <<>> THEN <<x>>
    ELSE IF x <= Head(s) THEN <<x>> \o s
    ELSE <<Head(s)>> \o InsertSorted(Tail(s), x)

RECURSIVE SortAsc(_)
SortAsc(s) == IF s = <<>> THEN <<>> ELSE InsertSorted(SortAsc(Tail(s)), Head(s))

\* function with one key removed / added
DelKey(f, k) == [x \in (DOMAIN f) \ {k} |-> f[x]]
PutKey(f, k, v) == [x \in (DOMAIN f) \cup {k} |-> IF x = k THEN v ELSE f[x]]
EmptyMap == [x \in {} |-> 0]

\* ----------------------------------------------------------------- heapq
RECURSIVE siftdown(_, _)
siftdown(h, pos) ==
    IF pos <= 1 THEN h
    ELSE LET parent == pos \div 2 IN
         IF h[pos] < h[parent] THEN siftdown(Swap(h, pos, parent), parent)
         ELSE h

RECURSIVE siftup_leaf(_, _)
siftup_leaf(h, pos) ==
    LET child == 2 * pos
        right == child + 1
        pick == IF right <= Len(h) /\ ~(h[child] < h[right]) THEN right ELSE child
    IN  IF child > Len(h) THEN <<h, pos>>
        ELSE siftup_leaf(Swap(h, pos, pick), pick)

siftup(h) == LET r == siftup_leaf(h, 1) IN siftdown(r[1], r[2])

heappush(h, x) == siftdown(Append(h, x), Len(h) + 1)

heappop(h) ==
    LET lastelt == Last(h)
        rest == Front(h)
    IN  IF rest = <<>> THEN <<>> ELSE siftup([rest EXCEPT ![1] = lastelt])

\* the Link objects that a behaviour creates, in the order of creation
MaxLinks == 3
LinkOrder == <<"k1", "k2", "k3">>
LinkIds == Range(LinkOrder)

\* a Link that was not created yet
NoLink ==
    [made |-> FALSE, referent |-> None, subject |-> None,
     next_subject |-> None, prev_subject |-> None,
     next_listener |-> None, prev_listener |-> None]

\* no generator
NoIter ==
    [kind |-> None, of |-> None, started |-> FALSE, nxt |-> None,
     out |-> <<>>, start |-> <<>>, done |-> FALSE, cut |-> FALSE]

\* _loop is not being executed: its local variable queue does not exist
NoLocal == [items |-> <<>>, shared |-> FALSE]

\* ------------------------------------------------------------------ state
VARIABLES
    \* STMHistory and Controller fields, listener and subject fields
    active, in_cleanup, undo, at_commit, managers, reads, writes, has_run,
    layers, queues, to_retry, current_listener, last_listener,
    last_notified, last_save, readonly, layer, next_subject, next_listener,
    value,
    \* where the block is: program counter, run frames, cleanup locals
    pc, stack, ci, exit_todo, typ, ckind, ops,
    \* history of the current block, read by the properties only
    hook_log, enters, exits, redo_ran, reentrant, first_err, result,
    manage_noop, rb_len, skipped, touched, block_snap, commit_snap, snap,
    rolled, nreg, rolled_back, wrote_ext, notes,
    \* the rules of the listeners: what run() of each reads and writes
    prog,
    \* the cells of peak.events.trellis: _set_by, _needs_init, __class__,
    \* rule and _reset of each cell; what the rules have seen in the runs
    \* that were not undone, the cells
    \* that changed() was called on in the current block, and who has
    \* assigned which value to the Value cell in the current pulse
    set_by, needs_init, cls, rule, reset, log, chg, sets,
    \* the EventLoop: _call_queue, _callback_active, the callbacks handed to
    \* _arrange_callback and not yet called, the calls executed, the number
    \* of calls made, and the calls whose undo entry was applied
    call_queue, callback_active, arranged, executed, ncalls, undone,
    \* the value that user code has last assigned to the Cell in the current
    \* block
    override,
    \* the Link objects with their five pointers and their weak reference,
    \* the head pointers of the subjects and listeners, the listeners that
    \* were garbage collected, and the generator of an iteration under way
    lnk, heads, dead, it,
    \* the Time service: _now, the heap that the _schedule cell holds, and
    \* the keys of _events
    _now, _schedule, _events,
    \* EventLoop.run: the cells running and stop_requested, the list that
    \* the local variable queue of _loop is bound to, and how many calls had
    \* been executed when stop() was called
    running, stop_requested, queue, stopped_at

vars ==
    <<active, in_cleanup, undo, at_commit, managers, reads, writes,
      has_run, layers, queues, to_retry, current_listener, last_listener,
      last_notified, last_save, readonly, layer, next_subject,
      next_listener, value, pc, stack, ci, exit_todo, typ, ckind, ops,
      hook_log, enters, exits, redo_ran, reentrant, first_err, result,
      manage_noop, rb_len, skipped, touched, block_snap, commit_snap, snap,
      rolled, nreg, rolled_back, wrote_ext, notes, prog,
      set_by, needs_init, cls, rule, reset, log, chg, sets,
      call_queue, callback_active, arranged, executed, ncalls, undone,
      override, lnk, heads, dead, it, _now, _schedule, _events,
      running, stop_requested, queue, stopped_at>>

\* the whole state as one record; err is the exception in flight, and
\* rolled marks the state right after a rollback_to(snap.sp) by user code
St ==
    [active |-> active,
     in_cleanup |-> in_cleanup,
     undo |-> undo,
     at_commit |-> at_commit,
     managers |-> managers,
     reads |-> reads,
     writes |-> writes,
     has_run |-> has_run,
     layers |-> layers,
     queues |-> queues,
     to_retry |-> to_retry,
     current_listener |-> current_listener,
     last_listener |-> last_listener,
     last_notified |-> last_notified,
     last_save |-> last_save,
     readonly |-> readonly,
     layer |-> layer,
     next_subject |-> next_subject,
     next_listener |-> next_listener,
     value |-> value,
     pc |-> pc,
     stack |-> stack,
     ci |-> ci,
     exit_todo |-> exit_todo,
     typ |-> typ,
     ckind |-> ckind,
     ops |-> ops,
     hook_log |-> hook_log,
     enters |-> enters,
     exits |-> exits,
     redo_ran |-> redo_ran,
     reentrant |-> reentrant,
     first_err |-> first_err,
     result |-> result,
     manage_noop |-> manage_noop,
     rb_len |-> rb_len,
     skipped |-> skipped,
     touched |-> touched,
     block_snap |-> block_snap,
     commit_snap |-> commit_snap,
     snap |-> snap,
     rolled |-> FALSE,
     nreg |-> nreg,
     rolled_back |-> rolled_back,
     wrote_ext |-> wrote_ext,
     notes |-> notes,
     prog |-> prog,
     set_by |-> set_by,
     needs_init |-> needs_init,
     cls |-> cls,
     rule |-> rule,
     reset |-> reset,
     log |-> log,
     chg |-> chg,
     sets |-> sets,
     call_queue |-> call_queue,
     callback_active |-> callback_active,
     arranged |-> arranged,
     executed |-> executed,
     ncalls |-> ncalls,
     undone |-> undone,
     override |-> override,
     lnk |-> lnk,
     heads |-> heads,
     dead |-> dead,
     it |-> it,
     _now |-> _now,
     _schedule |-> _schedule,
     _events |-> _events,
     running |-> running,
     stop_requested |-> stop_requested,
     queue |-> queue,
     stopped_at |-> stopped_at,
     err |-> None]

Install(c) ==
    /\ active' = c.active
    /\ in_cleanup' = c.in_cleanup
    /\ undo' = c.undo
    /\ at_commit' = c.at_commit
    /\ managers' = c.managers
    /\ reads' = c.reads
    /\ writes' = c.writes
    /\ has_run' = c.has_run
    /\ layers' = c.layers
    /\ queues' = c.queues
    /\ to_retry' = c.to_retry
    /\ current_listener' = c.current_listener
    /\ last_listener' = c.last_listener
    /\ last_notified' = c.last_notified
    /\ last_save' = c.last_save
    /\ readonly' = c.readonly
    /\ layer' = c.layer
    /\ next_subject' = c.next_subject
    /\ next_listener' = c.next_listener
    /\ value' = c.value
    /\ pc' = c.pc
    /\ stack' = c.stack
    /\ ci' = c.ci
    /\ exit_todo' = c.exit_todo
    /\ typ' = c.typ
    /\ ckind' = c.ckind
    /\ ops' = c.ops
    /\ hook_log' = c.hook_log
    /\ enters' = c.enters
    /\ exits' = c.exits
    /\ redo_ran' = c.redo_ran
    /\ reentrant' = c.reentrant
    /\ first_err' = c.first_err
    /\ result' = c.result
    /\ manage_noop' = c.manage_noop
    /\ rb_len' = c.rb_len
    /\ skipped' = c.skipped
    /\ touched' = c.touched
    /\ block_snap' = c.block_snap
    /\ commit_snap' = c.commit_snap
    /\ snap' = c.snap
    /\ rolled' = c.rolled
    /\ nreg' = c.nreg
    /\ rolled_back' = c.rolled_back
    /\ wrote_ext' = c.wrote_ext
    /\ notes' = c.notes
    /\ prog' = c.prog
    /\ set_by' = c.set_by
    /\ needs_init' = c.needs_init
    /\ cls' = c.cls
    /\ rule' = c.rule
    /\ reset' = c.reset
    /\ log' = c.log
    /\ chg' = c.chg
    /\ sets' = c.sets
    /\ call_queue' = c.call_queue
    /\ callback_active' = c.callback_active
    /\ arranged' = c.arranged
    /\ executed' = c.executed
    /\ ncalls' = c.ncalls
    /\ undone' = c.undone
    /\ override' = c.override
    /\ lnk' = c.lnk
    /\ heads' = c.heads
    /\ dead' = c.dead
    /\ it' = c.it
    /\ _now' = c._now
    /\ _schedule' = c._schedule
    /\ _events' = c._events
    /\ running' = c.running
    /\ stop_requested' = c.stop_requested
    /\ queue' = c.queue
    /\ stopped_at' = c.stopped_at

\* peak.util.extremes.Max, the layer of observers
Max == 99

\* the listeners found in some queue
Queued(c) == {l \in Listeners : \E L \in DOMAIN c.queues : l \in c.queues[L]}

\* what a test can observe of the controller and of the cells
Obs(c) ==
    [taken |-> TRUE, sp |-> Len(c.undo),
     queues |-> c.queues, layers |-> Range(c.layers), queued |-> Queued(c),
     has_run |-> c.has_run, last_listener |-> c.last_listener,
     last_save |-> c.last_save, last_notified |-> c.last_notified,
     at_commit |-> c.at_commit, value |-> c.value, layer |-> c.layer,
     next_subject |-> c.next_subject, next_listener |-> c.next_listener,
     call_queue |-> c.call_queue, ncalls |-> c.ncalls]
NoSnap == [taken |-> FALSE]

Raise(c, e) ==
    [c EXCEPT !.err = e,
              !.first_err = IF c.first_err = None THEN e ELSE c.first_err]

\* an undo-log entry (func, args)
U(f, ob, attr, sv, n, ns) ==
    [f |-> f, ob |-> ob, attr |-> attr, sv |-> sv, n |-> n, ns |-> ns,
     sq |-> <<>>]
UCancel(l) == U("cancel", l, None, None, 0, {})
USchedule(l) == U("schedule", l, None, None, 0, {})
UHasRunPop(l) == U("has_run.pop", l, None, None, 0, {})
UCommitPop == U("at_commit.pop", None, None, None, 0, {})
ULink(s, l) == U("Link", s, None, l, 0, {})
UUnlink(s, l) == U("unlink", s, None, l, 0, {})
UUser(u) == U(u, None, None, None, 0, {})
UCallPop(id) == U("_call_queue.pop", None, None, None, id, {})

\* what follows a call in the code: F unless the call raised
Then(c, F(_)) == IF c.err # None THEN c ELSE F(c)

\* ------------------------------------------------------------ STMHistory
on_undo(c, e) ==
    IF ~c.active THEN Raise(c, "AssertionError")
    ELSE [c EXCEPT !.undo = Append(@, e)]

savepoint(c) == Len(c.undo)

\* on_commit without the undo entry that takes the hook back
on_commit_unlogged(c, h) ==
    IF ~c.active THEN Raise(c, "AssertionError")
    ELSE [c EXCEPT !.at_commit = Append(@, [h |-> h, id |-> c.nreg + 1]),
                   !.nreg = @ + 1]

on_commit(c, h) ==
    IF ~c.active THEN Raise(c, "AssertionError")
    ELSE [c EXCEPT !.at_commit = Append(@, [h |-> h, id |-> c.nreg + 1]),
                   !.nreg = @ + 1,
                   !.undo = Append(@, UCommitPop)]

\* manage without the test for an entered manager
manage_always(c, mgr) ==
    IF ~c.active THEN Raise(c, "AssertionError")
    ELSE [c EXCEPT !.enters[mgr] = @ + 1, !.managers = Append(@, mgr)]

manage(c, mgr) ==
    IF ~c.active THEN Raise(c, "AssertionError")
    ELSE IF mgr \notin Range(c.managers)
    THEN [c EXCEPT !.enters[mgr] = @ + 1,
                   !.managers = Append(@, mgr)]
    ELSE [c EXCEPT !.manage_noop = TRUE]

\* STMHistory.setattr on a controller attribute
setattr_ctrl(c, attr, sv, n, ns) ==
    LET old == CASE attr = "last_save" -> U("setattr", "ctrl", attr, None, c.last_save, {})
                 [] attr = "last_listener" -> U("setattr", "ctrl", attr, c.last_listener, 0, {})
                 [] attr = "last_notified" -> U("setattr", "ctrl", attr, None, 0, c.last_notified)
    IN  Then(on_undo(c, old), LAMBDA c1 :
            CASE attr = "last_save" -> [c1 EXCEPT !.last_save = n]
              [] attr = "last_listener" -> [c1 EXCEPT !.last_listener = sv]
              [] attr = "last_notified" -> [c1 EXCEPT !.last_notified = ns])

\* STMHistory.setattr on a subject's _value
setattr_value(c, s, v) ==
    Then(on_undo(c, U("setattr", s, "_value", None, c.value[s], {})),
         LAMBDA c1 : [c1 EXCEPT !.value[s] = v])

\* -------------------------------------------------------------- Link
Link(c, s, l) ==
    [c EXCEPT !.next_subject[l] = <<s>> \o @,
              !.next_listener[s] = <<l>> \o @]

unlink(c, s, l) ==
    [c EXCEPT !.next_subject[l] = RemoveFirst(@, s),
              !.next_listener[s] = RemoveFirst(@, l)]

\* ------------------------------------------------------ Controller queues
\* cancel that deletes an emptied queue and leaves its layer in layers
cancel_keeps_layer(c, l) ==
    LET L == c.layer[l] IN
    IF L \in DOMAIN c.queues /\ l \in c.queues[L]
    THEN IF c.queues[L] = {l}
         THEN [c EXCEPT !.queues = DelKey(@, L)]
         ELSE [c EXCEPT !.queues[L] = @ \ {l}]
    ELSE c

cancel(c, l) ==
    LET L == c.layer[l] IN
    IF L \in DOMAIN c.queues /\ l \in c.queues[L]
    THEN IF c.queues[L] = {l}
         THEN IF L \in Range(c.layers)
              THEN [c EXCEPT !.queues = DelKey(@, L),
                             !.layers = SortAsc(RemoveFirst(@, L))]
              ELSE Raise([c EXCEPT !.queues = DelKey(@, L)], "ValueError")
         ELSE [c EXCEPT !.queues[L] = @ \ {l}]
    ELSE c

\* schedule: a listener that has run is noted for a retry
schedule_retry(c, l) ==
    IF l \in DOMAIN c.has_run
    THEN [c EXCEPT !.to_retry = @ \cup {c.has_run[l]}] ELSE c

\* schedule: the listener enters the queue of its (new) layer
schedule_put(c, l, old, new) ==
    LET c3 == IF new # old THEN [c EXCEPT !.layer[l] = new] ELSE c
    IN  IF new \notin DOMAIN c3.queues
        THEN [c3 EXCEPT !.queues = PutKey(@, new, {l}),
                        !.layers = heappush(@, new)]
        ELSE [c3 EXCEPT !.queues[new] = @ \cup {l}]

\* schedule that never logs the cancelling undo entry
schedule_queued_unlogged(c, l, queued, moved, reschedule) ==
    IF queued /\ moved THEN cancel(c, l) ELSE c

\* schedule: a queued listener leaves its old queue if it moves; the
\* scheduling of one that was not queued is logged
schedule_queued(c, l, queued, moved, reschedule) ==
    IF queued
    THEN IF moved THEN cancel(c, l) ELSE c
    ELSE IF c.active /\ ~reschedule
    THEN on_undo([c EXCEPT !.touched = @ \cup {l}], UCancel(l))
    ELSE c
\* schedule that moves the listener to the layer above the source whatever
\* layer it had
schedule_any_source(c, l, source_layer, reschedule) ==
    LET old == c.layer[l]
        new == IF source_layer # NoLayer THEN source_layer + 1 ELSE old
        queued == old \in DOMAIN c.queues /\ c.queues[old] # {}
                  /\ l \in c.queues[old]
    IN  IF c.readonly /\ old # Max THEN Raise(c, "AssertionError")
        ELSE Then(schedule_queued(schedule_retry(c, l), l, queued,
                                  new # old, reschedule),
                  LAMBDA c2 : schedule_put(c2, l, old, new))

schedule(c, l, source_layer, reschedule) ==
    LET old == c.layer[l]
        new == IF source_layer # NoLayer /\ source_layer >= old
               THEN source_layer + 1 ELSE old
        queued == old \in DOMAIN c.queues /\ c.queues[old] # {}
                  /\ l \in c.queues[old]
    IN  IF c.readonly /\ old # Max THEN Raise(c, "AssertionError")
        ELSE Then(schedule_queued(schedule_retry(c, l), l, queued,
                                  new # old, reschedule),
                  LAMBDA c2 : schedule_put(c2, l, old, new))

\* log without the last entry of listener l: the run that made it is undone
RECURSIVE Unseen(_, _)
Unseen(lg, l) ==
    IF lg = <<>> THEN <<>>
    ELSE IF Last(lg)[1] = l THEN Front(lg)
    ELSE Append(Unseen(Front(lg), l), Last(lg))

\* one entry of the undo log, called as f(*a)
ApplyUndo(c, e) ==
    CASE e.f = "cancel" -> cancel(c, e.ob)
      [] e.f = "schedule" -> schedule(c, e.ob, NoLayer, TRUE)
      [] e.f = "has_run.pop" ->
            [c EXCEPT !.has_run = DelKey(@, e.ob),
                      !.log = Unseen(@, e.ob)]
      [] e.f = "at_commit.pop" ->
            IF c.at_commit = <<>> THEN Raise(c, "IndexError")
            ELSE [c EXCEPT !.at_commit = Front(@),
                           !.rolled_back = @ \cup {Last(c.at_commit).id}]
      [] e.f = "Link" -> Link(c, e.ob, e.sv)
      [] e.f = "unlink" -> unlink(c, e.ob, e.sv)
      [] e.f = "_call_queue.pop" ->
            IF c.call_queue = <<>> THEN Raise(c, "IndexError")
            ELSE [c EXCEPT !.call_queue = Front(@),
                           !.queue.items = IF c.queue.shared THEN Front(@)
                                           ELSE @,
                           !.undone = @ \cup {e.n}]
      [] e.f = "setattr" /\ e.ob = "ctrl" /\ e.attr = "last_save" ->
            [c EXCEPT !.last_save = e.n]
      [] e.f = "setattr" /\ e.ob = "ctrl" /\ e.attr = "last_listener" ->
            [c EXCEPT !.last_listener = e.sv]
      [] e.f = "setattr" /\ e.ob = "ctrl" /\ e.attr = "last_notified" ->
            [c EXCEPT !.last_notified = e.ns]
      [] e.f = "setattr" /\ e.ob # "ctrl" /\ e.attr = "_value" ->
            [c EXCEPT !.value[e.ob] = e.n]
      [] e.f = "setattr" /\ e.ob # "ctrl" /\ e.attr = "_set_by" ->
            [c EXCEPT !.set_by[e.ob] = e.sv]
      [] e.f = "setattr" /\ e.ob # "ctrl" /\ e.attr = "_needs_init" ->
            [c EXCEPT !.needs_init[e.ob] = (e.n = 1)]
      [] e.f = "setattr" /\ e.ob # "ctrl" /\ e.attr = "rule" ->
            [c EXCEPT !.rule[e.ob] = e.sv]
      [] e.f = "setattr" /\ e.ob # "ctrl" /\ e.attr = "next_listener" ->
            [c EXCEPT !.next_listener[e.ob] = e.sq]
      [] e.f = "setattr" /\ e.ob # "ctrl" /\ e.attr = "__class__" ->
            [c EXCEPT !.cls[e.ob] = e.sv]
      [] e.f = "setattr" /\ e.ob # "ctrl" /\ e.attr = "_now" ->
            [c EXCEPT !._now = e.n]
      [] e.f = "u_log" -> c
      [] e.f = "u_undo" -> on_undo(c, UUser("u_redo"))
      [] e.f = "u_redo" -> [c EXCEPT !.redo_ran = TRUE]

RECURSIVE rollback_loop(_, _)
rollback_loop(c, sp) ==
    IF Len(c.undo) > sp
    THEN IF c.undo = <<>> THEN Raise(c, "IndexError")
         ELSE Then(ApplyUndo([c EXCEPT !.undo = Front(@)], Last(c.undo)),
                   LAMBDA c1 : rollback_loop(c1, sp))
    ELSE c

\* a savepoint above the length of the undo log is no longer one to return to
forget_snap(c) ==
    IF c.snap.taken /\ Len(c.undo) < c.snap.sp
    THEN [c EXCEPT !.snap = NoSnap] ELSE c

\* sp = NoSave stands for rollback_to(None): every length exceeds it
rollback_to(c, sp) ==
    IF ~c.active THEN Raise(c, "AssertionError")
    ELSE forget_snap(rollback_loop(c, sp))

\* ------------------------------------------------- Controller read/write
lock(c, subject) ==
    IF ~c.active THEN Raise(c, "AssertionError")
    ELSE LET manager == ManagerOf(subject) IN
         IF manager # None /\ manager \notin Range(c.managers)
         THEN manage(c, manager)
         ELSE IF manager # None THEN [c EXCEPT !.manage_noop = TRUE]
         ELSE c

\* subject.layer: the class attribute, or the layer of a rule cell
layer_of(c, subject) ==
    IF subject \in Listeners THEN c.layer[subject] ELSE SubjectLayer

used(c, subject) ==
    Then(lock(c, subject), LAMBDA c1 :
        LET cl == c1.current_listener IN
        IF cl # None /\ subject \notin c1.reads
        THEN IF layer_of(c1, subject) >= c1.layer[cl]
             THEN [c1 EXCEPT !.reads = @ \cup {subject},
                             !.layer[cl] = layer_of(c1, subject) + 1]
             ELSE [c1 EXCEPT !.reads = @ \cup {subject}]
        ELSE c1)

\* schedule every dirty listener in a list of listeners, in order
RECURSIVE schedule_all(_, _, _)
schedule_all(c, ls, source_layer) ==
    IF ls = <<>> \/ c.err # None THEN c
    ELSE schedule_all(
            IF dirty(c, Head(ls)) THEN schedule(c, Head(ls), source_layer, FALSE)
            ELSE c,
            Tail(ls), source_layer)

changed(c, subject) ==
    Then(lock(c, subject), LAMBDA c1 :
        Then(IF c1.current_listener # None
             THEN [c1 EXCEPT !.writes = @ \cup {subject}]
             ELSE schedule_all(c1, c1.next_listener[subject], NoLayer),
             LAMBDA c2 : IF c2.readonly THEN Raise(c2, "RuntimeError")
                         ELSE c2))

\* the order in which dict.popitem hands out the keys of a dict of subjects
SubjectOrder(S, asc) ==
    LET pick(x) == IF x \in S THEN <<x>> ELSE <<>>
        up == pick("s1") \o pick("s2") \o pick("t0") \o pick("t1")
                \o pick("t2") \o pick("e1") \o pick("e2")
        dn == pick("e2") \o pick("e1") \o pick("t2") \o pick("t1")
                \o pick("t0") \o pick("s2") \o pick("s1")
    IN  IF asc THEN up ELSE dn

\* _process_writes passing over every dependent that has run in this pulse
RECURSIVE notify_unless_run(_, _, _, _)
notify_unless_run(c, deps, listener, lyr) ==
    IF deps = <<>> \/ c.err # None THEN c
    ELSE LET d == Head(deps)
             skip == d \in DOMAIN c.has_run
         IN  notify_unless_run(
                    IF ~skip /\ dirty(c, d)
                    THEN Then(schedule(c, d, lyr, FALSE), LAMBDA c2 :
                              [c2 EXCEPT !.last_notified = @ \cup {d},
                                         !.notes = @ \cup {<<listener, d>>}])
                    ELSE c,
                    Tail(deps), listener, lyr)

\* the dependents of one written subject, as _process_writes notifies them
RECURSIVE notify(_, _, _, _)
notify(c, deps, listener, lyr) ==
    IF deps = <<>> \/ c.err # None THEN c
    ELSE LET d == Head(deps)
             skip == d \in DOMAIN c.has_run /\ c.has_run[d] = listener
         IN  notify(IF ~skip /\ dirty(c, d)
                    THEN Then(schedule(c, d, lyr, FALSE), LAMBDA c2 :
                              [c2 EXCEPT !.last_notified = @ \cup {d},
                                         !.notes = @ \cup {<<listener, d>>}])
                    ELSE c,
                    Tail(deps), listener, lyr)

RECURSIVE writes_loop(_, _, _, _)
writes_loop(c, ws, listener, lyr) ==
    IF ws = <<>> \/ c.err # None THEN c
    ELSE writes_loop(
            notify([c EXCEPT !.writes = @ \ {Head(ws)}],
                   c.next_listener[Head(ws)], listener, lyr),
            Tail(ws), listener, lyr)

_process_writes(c, listener, asc) ==
    Then(setattr_ctrl(c, "last_notified", None, 0, {}), LAMBDA c1 :
        writes_loop(c1, SubjectOrder(c1.writes, asc), listener,
                    c1.layer[listener]))

\* the first loop of _process_reads leaving in reads the subjects that are
\* linked already
RECURSIVE reads_old_keeps_reads(_, _, _)
reads_old_keeps_reads(c, links, listener) ==
    IF links = <<>> THEN c
    ELSE LET s == Head(links) IN
         reads_old_keeps_reads(
            IF s \in c.reads THEN c
            ELSE unlink([c EXCEPT !.undo = Append(@, ULink(s, listener))],
                        s, listener),
            Tail(links), listener)

\* the first loop of _process_reads, over the links of the listener
RECURSIVE reads_old(_, _, _)
reads_old(c, links, listener) ==
    IF links = <<>> THEN c
    ELSE LET s == Head(links) IN
         reads_old(
            IF s \in c.reads THEN [c EXCEPT !.reads = @ \ {s}]
            ELSE unlink([c EXCEPT !.undo = Append(@, ULink(s, listener))],
                        s, listener),
            Tail(links), listener)
\* the second loop of _process_reads without the undo entry of a new link
RECURSIVE reads_new_unlogged(_, _, _)
reads_new_unlogged(c, subjects, listener) ==
    IF subjects = <<>> THEN c
    ELSE LET s == Head(subjects) IN
         reads_new_unlogged(
            [Link(c, s, listener) EXCEPT !.reads = @ \ {s}],
            Tail(subjects), listener)

RECURSIVE reads_new(_, _, _)
reads_new(c, subjects, listener) ==
    IF subjects = <<>> THEN c
    ELSE LET s == Head(subjects) IN
         reads_new(
            [Link(c, s, listener) EXCEPT
                !.reads = @ \ {s},
                !.undo = Append(@, UUnlink(s, listener))],
            Tail(subjects), listener)

_process_reads(c, listener, asc) ==
    Then(reads_old(c, c.next_subject[listener], listener), LAMBDA c1 :
        reads_new(c1, SubjectOrder(c1.reads, asc), listener))

\* ---------------------------------------------------------------- _retry
RECURSIVE retry_loop(_, _, _, _)
\* _retry: after one rollback, the next turn of the loop
retry_next(c, todo, destinations, routes) ==
    IF c.err # None THEN <<c, routes>>
    ELSE retry_loop(c, todo, destinations, routes)

retry_loop(c, todo, destinations, routes) ==
    IF todo = {} THEN <<c, routes>>
    ELSE LET this == c.last_listener
             via == IF c.last_notified # NoNotified
                    THEN destinations \cap c.last_notified ELSE {}
             routes1 == IF via # {} THEN PutKey(routes, this, via) ELSE routes
             dest1 == IF via # {} THEN destinations \cup {this}
                      ELSE destinations
         IN  IF c.last_save # NoSave /\ Len(c.undo) <= c.last_save
                /\ this \notin todo
             THEN <<Raise(c, "Diverge"), routes1>>
             ELSE retry_next(rollback_to(c, c.last_save), todo \ {this},
                             dest1, routes1)

\* _retry: the check for a cycle, and the finally clause
retry_end(r) ==
    [(IF r[1].err = None /\ (r[1].to_retry \cap DOMAIN r[2]) # {}
      THEN Raise(r[1], "CircularityError") ELSE r[1])
     EXCEPT !.to_retry = {},
            !.notes = {n \in @ : n[1] \in DOMAIN r[1].has_run}]

_retry(c) == retry_end(retry_loop(c, c.to_retry, c.to_retry, EmptyMap))

\* ------------------------------------------------------------------- run
Frame(l, old, old_reads, from_loop) ==
    [listener |-> l, old |-> old, old_reads |-> old_reads,
     from_loop |-> from_loop]

\* Controller.run for a listener that no other listener runs: the savepoint
\* and the marks to come back to
run_top(c, listener) ==
    Then(setattr_ctrl(c, "last_save", None, savepoint(c), {}), LAMBDA c1 :
        Then(setattr_ctrl(c1, "last_listener", listener, 0, {}), LAMBDA c2 :
            on_undo([c2 EXCEPT !.has_run = PutKey(@, listener, listener)],
                    UHasRunPop(listener))))

\* Controller.run setting readonly for a listener of any layer
run_begin_any_layer(c, listener, from_loop) ==
    LET old == c.current_listener
        c0 == [c EXCEPT !.current_listener = listener,
                        !.readonly = TRUE]
        fin(x) == [x EXCEPT !.current_listener = old, !.readonly = FALSE]
        push(x) == [x EXCEPT !.stack = Append(@,
                        Frame(listener, old, c.reads, from_loop)),
                             !.pc = "user"]
        enter(x) == IF x.err # None THEN fin(x) ELSE push(x)
    IN  IF listener \in DOMAIN c0.has_run
        THEN fin(Raise(c0, "AssertionError"))
        ELSE IF old # None
        THEN IF old \notin DOMAIN c0.has_run
             THEN fin(Raise(c0, "KeyError"))
             ELSE enter(on_undo([c0 EXCEPT !.has_run =
                                    PutKey(@, listener, c0.has_run[old]),
                                           !.reads = {}],
                                UHasRunPop(listener)))
        ELSE enter(run_top(c0, listener))

\* Controller.run up to the call of listener.run()
run_begin(c, listener, from_loop) ==
    LET old == c.current_listener
        c0 == [c EXCEPT !.current_listener = listener,
                        !.readonly = IF c.layer[listener] = Max THEN TRUE
                                     ELSE @]
        fin(x) == [x EXCEPT !.current_listener = old, !.readonly = FALSE]
        push(x) == [x EXCEPT !.stack = Append(@,
                        Frame(listener, old, c.reads, from_loop)),
                             !.pc = "user"]
        enter(x) == IF x.err # None THEN fin(x) ELSE push(x)
    IN  IF listener \in DOMAIN c0.has_run
        THEN fin(Raise(c0, "AssertionError"))
        ELSE IF old # None
        THEN IF old \notin DOMAIN c0.has_run
             THEN fin(Raise(c0, "KeyError"))
             ELSE enter(on_undo([c0 EXCEPT !.has_run =
                                    PutKey(@, listener, c0.has_run[old]),
                                           !.reads = {}],
                                UHasRunPop(listener)))
        ELSE enter(run_top(c0, listener))

\* Controller.run after listener.run() has returned
run_end(c, asc) ==
    LET f == Last(c.stack)
        c0 == [c EXCEPT !.stack = Front(@)]
        fin(x) == [x EXCEPT !.current_listener = f.old, !.readonly = FALSE]
        failed(x) == IF x.err # None
                     THEN [x EXCEPT !.reads = {}, !.writes = {}] ELSE x
    IN  IF f.old # None
        THEN fin([_process_reads(c0, f.listener, asc) EXCEPT
                    !.reads = f.old_reads])
        ELSE fin([failed(Then(_process_writes(c0, f.listener, asc),
                              LAMBDA c1 : _process_reads(c1, f.listener, asc)))
                  EXCEPT !.pc = IF f.from_loop THEN "inner" ELSE "user"])

\* an exception leaving listener.run(): the handlers of every run frame
RECURSIVE unwind(_)
unwind(c) ==
    IF c.stack = <<>> THEN c
    ELSE LET f == Last(c.stack)
             c1 == IF f.old # None THEN [c EXCEPT !.reads = f.old_reads]
                   ELSE [c EXCEPT !.reads = {}, !.writes = {}]
         IN  unwind([c1 EXCEPT !.stack = Front(@),
                               !.current_listener = f.old,
                               !.readonly = FALSE])

\* ------------------------------------------------ cells (peak.events.trellis)
\* the bound methods that cells register as commit hooks
FinishHook ==
    [x \in AllSubjects |->
        CASE x = "s1" -> "s1._finish" [] x = "s2" -> "s2._finish"
          [] x = "t0" -> "t0._finish" [] x = "t1" -> "t1._finish"
          [] x = "t2" -> "t2._finish" [] x = "e1" -> "e1._finish"
          [] x = "e2" -> "e2._finish"]
CheckConstHook ==
    [x \in Listeners |->
        CASE x = "t0" -> "t0._check_const" [] x = "t1" -> "t1._check_const"
          [] x = "t2" -> "t2._check_const"]

\* the assignment ob.attr = val of change_attr
store_attr(c, ob, attr, sv, n, sq) ==
    CASE attr = "_value" -> [c EXCEPT !.value[ob] = n]
      [] attr = "_set_by" -> [c EXCEPT !.set_by[ob] = sv]
      [] attr = "_needs_init" -> [c EXCEPT !.needs_init[ob] = (n = 1)]
      [] attr = "rule" -> [c EXCEPT !.rule[ob] = sv]
      [] attr = "next_listener" -> [c EXCEPT !.next_listener[ob] = sq]
      [] attr = "__class__" -> [c EXCEPT !.cls[ob] = sv]
      [] attr = "_now" -> [c EXCEPT !._now = n]

\* change_attr(obj, field, val): the previous value is captured as an undo
\* entry, then the field is written
change_attr(c, ob, attr, sv, n, sq) ==
    LET old ==
          CASE attr = "_value" -> U("setattr", ob, attr, None, c.value[ob], {})
            [] attr = "_set_by" -> U("setattr", ob, attr, c.set_by[ob], 0, {})
            [] attr = "_needs_init" ->
                  U("setattr", ob, attr, None,
                    IF c.needs_init[ob] THEN 1 ELSE 0, {})
            [] attr = "rule" -> U("setattr", ob, attr, c.rule[ob], 0, {})
            [] attr = "next_listener" ->
                  [U("setattr", ob, attr, None, 0, {}) EXCEPT
                        !.sq = c.next_listener[ob]]
            [] attr = "__class__" -> U("setattr", ob, attr, c.cls[ob], 0, {})
            [] attr = "_now" -> U("setattr", ob, attr, None, c._now, {})
    IN  Then(on_undo(c, old), LAMBDA c1 : store_attr(c1, ob, attr, sv, n, sq))

\* a cell calling changed(self)
cell_changed(c, cell) == changed([c EXCEPT !.chg = @ \cup {cell}], cell)
\* _finish that resets a discrete value and leaves _set_by as it is
_finish_keeps_set_by(c, cell) ==
    IF c.reset[cell] # NoReset /\ c.value[cell] # c.reset[cell]
    THEN Then(change_attr(c, cell, "_value", None, c.reset[cell], <<>>),
              LAMBDA c2 : cell_changed(c2, cell))
    ELSE c

\* _ReadValue._finish, the commit hook of a cell that was set
_finish(c, cell) ==
    Then(IF c.set_by[cell] # Sentinel
         THEN change_attr(c, cell, "_set_by", Sentinel, 0, <<>>) ELSE c,
         LAMBDA c1 :
            IF c1.reset[cell] # NoReset /\ c1.value[cell] # c1.reset[cell]
            THEN Then(change_attr(c1, cell, "_value", None,
                                  c1.reset[cell], <<>>),
                      LAMBDA c2 : cell_changed(c2, cell))
            ELSE c1)

\* set_value has returned: the running listener has assigned v
assigned(c, v) ==
    IF c.err # None THEN c
    ELSE [c EXCEPT !.sets = @ \cup {<<c.current_listener, v>>}]

\* Value.set_value calling changed(self) for an equal value as well
set_value_always_changed(c, cell, v, same) ==
    Then(lock(c, cell), LAMBDA c1 :
        Then(IF c1.set_by[cell] = Sentinel
             THEN Then(change_attr(c1, cell, "_set_by",
                                   c1.current_listener, 0, <<>>),
                       LAMBDA c2 : on_commit(c2, FinishHook[cell]))
             ELSE c1,
             LAMBDA c3 :
                IF v # c3.value[cell]
                   /\ c3.set_by[cell] # c3.current_listener
                THEN Raise(c3, "InputConflict")
                ELSE Then(cell_changed(c3, cell),
                          LAMBDA c4 : assigned(change_attr(c4, cell, "_value",
                                                           None, v, <<>>),
                                               v))))

\* Value.set_value inside a block; same says that the new value is the
\* very object the cell holds (value is self._value)
set_value(c, cell, v, same) ==
    Then(lock(c, cell), LAMBDA c1 :
        Then(IF c1.set_by[cell] = Sentinel
             THEN Then(change_attr(c1, cell, "_set_by",
                                   c1.current_listener, 0, <<>>),
                       LAMBDA c2 : on_commit(c2, FinishHook[cell]))
             ELSE c1,
             LAMBDA c3 :
                IF v = c3.value[cell] /\ same THEN assigned(c3, v)
                ELSE IF v # c3.value[cell]
                        /\ c3.set_by[cell] # c3.current_listener
                THEN Raise(c3, "InputConflict")
                ELSE Then(IF v # c3.value[cell]
                          THEN cell_changed(c3, cell) ELSE c3,
                          LAMBDA c4 : assigned(change_attr(c4, cell, "_value",
                                                           None, v, <<>>),
                                               v))))

\* ctrl.initialize, which peak.events.stm does not define
initialize(c, cell) == Raise(c, "AttributeError")

\* get_value of a Value, of a ReadOnlyCell or of a ConstantRule, called
\* inside a block
get_value(c, cell) ==
    IF cell \notin Listeners
    THEN IF c.active THEN used(c, cell) ELSE c
    ELSE IF c.cls[cell] = "ConstantRule" THEN c
    ELSE Then(IF c.needs_init[cell]
                 /\ (c.cls[cell] # "Cell" \/ c.set_by[cell] = Sentinel)
              THEN Then(cancel(c, cell), LAMBDA c1 : initialize(c1, cell))
              ELSE c,
              LAMBDA c2 : IF c2.current_listener # None THEN used(c2, cell)
                          ELSE c2)

\* ------------------------------------------------------------------ Time
\* the moments that the rules wait for, and the last moment of the clock
T1 == 1
T2 == 3
MaxNow == 3

\* the Value cell that _events holds for a moment
EventOf(when) == IF when = T1 THEN "e1" ELSE "e2"

\* whether something still refers to a cell: a Link, the reads of a run,
\* an entry of the undo log or a commit hook
Alive(c, cell) ==
    \/ c.next_listener[cell] # <<>>
    \/ cell \in c.reads
    \/ \E i \in DOMAIN c.stack : cell \in c.stack[i].old_reads
    \/ \E i \in DOMAIN c.undo : c.undo[i].ob = cell
    \/ \E i \in DOMAIN c.at_commit : c.at_commit[i].h = FinishHook[cell]

\* when in self._events: _events is a WeakValueDictionary, an entry is gone
\* as soon as nothing else refers to its cell
InEvents(c, when) == when \in c._events /\ Alive(c, EventOf(when))

\* what Time.reached(timer) returns when called in state c
reached_value(c, when) ==
    IF InEvents(c, when) THEN c.value[EventOf(when)] = 1
    ELSE c._now >= when

\* Time.reached(timer), timer._when = when; s2 is the _schedule cell
reached(c, when) ==
    IF ~InEvents(c, when)
    THEN IF c._now >= when THEN c
         ELSE IF c.current_listener # None
         THEN Then(get_value(c, "s2"), LAMBDA c1 :
              Then(changed([c1 EXCEPT !._schedule = heappush(@, when)], "s2"),
                   LAMBDA c2 :
                      get_value([c2 EXCEPT !._events = @ \cup {when},
                                           !.value[EventOf(when)] = 0],
                                EventOf(when))))
         ELSE c
    ELSE get_value(c, EventOf(when))

\* the rule Time._updated; t2 is the _tick cell
RECURSIVE _updated(_)
_updated(c) ==
    Then(get_value(c, "t2"), LAMBDA c1 :
    Then(get_value(c1, "s2"), LAMBDA c2 :
        IF c2.value["t2"] >= c2._schedule[1]
        THEN LET key == c2._schedule[1]
                 c3 == [c2 EXCEPT !._schedule = heappop(@)]
             IN  IF InEvents(c3, key)
                 THEN Then(set_value([c3 EXCEPT !._events = @ \ {key}],
                                     EventOf(key), 1, FALSE),
                           LAMBDA c4 : _updated(c4))
                 ELSE _updated(c3)
        ELSE c2))

\* the rules of the fixture: what calling rule() reads, and notes in log
seen(c, l, cell) ==
    Then(get_value(c, cell), LAMBDA c1 :
        [c1 EXCEPT !.log = Append(@, <<l, c1.value[cell]>>)])

call_rule(c, l) ==
    LET r == c.rule[l] IN
    CASE r = "const" -> [c EXCEPT !.log = Append(@, <<l, NoneVal>>)]
      [] r = "half" -> seen(c, l, "s2")
      [] r = "succ_src" -> seen(c, l, "s2")
      [] r = "log_src" -> seen(c, l, "s2")
      [] r = "succ_t0" -> seen(c, l, "t0")
      [] r = "log_t0" -> seen(c, l, "t0")
      [] r = "cond" ->
            Then(seen(c, l, "s2"), LAMBDA c1 :
                IF c1.value["s2"] # 0 THEN get_value(c1, "t1") ELSE c1)
      [] r = "acc" ->
            Then(seen(c, l, "s2"), LAMBDA c1 : get_value(c1, l))
      [] r = "_updated" -> _updated(c)
      [] r = "_tick" -> get_value(c, l)
      [] r = "alarm" -> reached(c, T1)
      [] r = "chain" ->
            Then(reached(c, T1), LAMBDA c1 :
                IF reached_value(c, T1) THEN reached(c1, T2) ELSE c1)

\* what rule() returns
RuleValue(c, l) ==
    LET r == c.rule[l] IN
    CASE r = "const" -> 1
      [] r = "half" -> c.value["s2"] \div 2
      [] r = "succ_src" -> c.value["s2"] + 1
      [] r = "log_src" -> NoneVal
      [] r = "succ_t0" -> c.value["t0"] + 1
      [] r = "log_t0" -> NoneVal
      [] r = "cond" -> IF c.value["s2"] # 0 THEN c.value["t1"] ELSE 0
      [] r = "acc" -> c.value["s2"] + c.value[l]
      [] r = "_updated" -> NoneVal
      [] r = "_tick" -> c.value[l]
      [] r = "alarm" -> IF reached_value(c, T1) THEN 1 ELSE 0
      [] r = "chain" -> IF reached_value(c, T1) THEN 1 ELSE 0

\* ReadOnlyCell.run calling changed(self) whatever the rule returns
run_changed_always(c, l, v) ==
    Then(IF c.set_by[l] = Sentinel
         THEN Then(change_attr(c, l, "_set_by", l, 0, <<>>),
                   LAMBDA c1 : on_commit(c1, FinishHook[l]))
         ELSE c,
         LAMBDA c2 :
            Then(change_attr(c2, l, "_value", None, v, <<>>),
                 LAMBDA c3 : cell_changed(c3, l)))

\* ReadOnlyCell.run after the first run: the value the rule returned
run_changed(c, l, v) ==
    IF v # c.value[l]
    THEN Then(IF c.set_by[l] = Sentinel
              THEN Then(change_attr(c, l, "_set_by", l, 0, <<>>),
                        LAMBDA c1 : on_commit(c1, FinishHook[l]))
              ELSE c,
              LAMBDA c2 :
                 Then(change_attr(c2, l, "_value", None, v, <<>>),
                      LAMBDA c3 : cell_changed(c3, l)))
    ELSE c

\* ReadOnlyCell.run: the first run
run_init(c, l) ==
    Then(change_attr(c, l, "_needs_init", None, 0, <<>>), LAMBDA c1 :
    Then(change_attr(c1, l, "_set_by", l, 0, <<>>), LAMBDA c2 :
    Then(call_rule(c2, l), LAMBDA c3 :
    Then(change_attr(c3, l, "_value", None, RuleValue(c3, l), <<>>),
         LAMBDA c4 : on_commit(c4, FinishHook[l])))))

\* ReadOnlyCell.run
ReadOnlyCell_run(c, l) ==
    Then(IF c.needs_init[l] THEN run_init(c, l)
         ELSE Then(call_rule(c, l), LAMBDA c1 :
                   run_changed(c1, l, RuleValue(c1, l))),
         LAMBDA c2 : IF c2.reads = {} THEN on_commit(c2, CheckConstHook[l])
                     ELSE c2)

\* _check_const that never makes the cell a constant
_check_const_never(c, l) == c

\* ReadOnlyCell._check_const, the commit hook of a run that read nothing
_check_const(c, l) ==
    IF c.next_subject[l] = <<>>
       /\ (c.reset[l] = NoReset \/ c.value[l] = c.reset[l])
    THEN Then(change_attr(c, l, "_set_by", Sentinel, 0, <<>>), LAMBDA c1 :
         Then(change_attr(c1, l, "rule", None, 0, <<>>), LAMBDA c2 :
         Then(change_attr(c2, l, "next_listener", None, 0, <<>>),
              LAMBDA c3 : change_attr(c3, l, "__class__", "ConstantRule",
                                      0, <<>>))))
    ELSE c

\* Cell._check_const: a Cell never becomes a constant
Cell_check_const(c, l) == c

\* Cell.run
Cell_run(c, l) ==
    IF Cell_dirty(c, l) THEN ReadOnlyCell_run(c, l)
    ELSE IF c.needs_init[l]
    THEN Then(change_attr(c, l, "_needs_init", None, 0, <<>>),
              LAMBDA c1 : call_rule(c1, l))
    ELSE Raise(c, "AssertionError")

\* Cell.set_value inside a block
Cell_set_value(c, cell, v, same) ==
    Then(set_value(c, cell, v, same), LAMBDA c1 :
        IF c1.needs_init[cell] THEN schedule(c1, cell, NoLayer, FALSE)
        ELSE c1)

\* listener.run(): a rule cell, a constant, or a test listener whose rule
\* assigns the Value cell s2
listener_run(c, l, same) ==
    CASE c.cls[l] = "ReadOnlyCell" -> ReadOnlyCell_run(c, l)
      [] c.cls[l] = "Cell" -> Cell_run(c, l)
      [] c.cls[l] = "ConstantRule" -> c
      [] c.cls[l] = "TestListener" ->
            IF c.rule[l] = "set1" THEN set_value(c, "s2", 1, same) ELSE c

\* --------------------------------------------------------------- cleanup
\* cleanup running the commit hooks on the error path as well
RunsCommitHooks_always(t) == TRUE

\* STMHistory.cleanup runs the commit hooks only when it is given no error
RunsCommitHooks(t) == t = None

\* cleanup: the managers are taken out of the controller to be exited
managers_out(c) ==
    [c EXCEPT !.exit_todo = c.managers, !.managers = <<>>,
              !.pc = "exit", !.ci = 0]

\* cleanup: an error raised by a callback takes the place of typ
caught(c) == IF c.err # None THEN [c EXCEPT !.typ = c.err, !.err = None] ELSE c

\* cleanup: rollback_to(0) if there is an error
rolled_back_on_error(c) ==
    IF c.typ # None THEN caught(rollback_to(c, 0)) ELSE c

\* cleanup that goes on to the managers without rolling back
after_hooks_no_rollback(c) == managers_out(c)

\* STMHistory.cleanup from the rollback on: undo on error, then the managers
after_hooks(c) ==
    managers_out(rolled_back_on_error(
        IF c.typ # None /\ c.undo # <<>>
        THEN [c EXCEPT !.rb_len = Len(c.undo)] ELSE c))

\* Controller.cleanup and STMHistory.cleanup up to the first callback
cleanup_begin(c, t, kind) ==
    LET c1 == [c EXCEPT !.has_run = EmptyMap, !.notes = {}, !.sets = {},
                        !.in_cleanup = TRUE,
                        !.typ = t, !.ckind = kind, !.err = None,
                        !.skipped = IF t # None /\ c.at_commit # <<>>
                                    THEN Len(c.at_commit) ELSE @]
    IN  IF RunsCommitHooks(t) /\ c1.at_commit # <<>>
        THEN [c1 EXCEPT !.pc = "commit", !.ci = 1]
        ELSE after_hooks(c1)

\* the except clause of _process, then the one of STMHistory.atomically
process_except(c) ==
    cleanup_begin([c EXCEPT !.layers = <<>>, !.queues = EmptyMap],
                  c.err, "final")

\* an exception raised in the user function or in a rule
Throw(c) == process_except(unwind(c))

\* atomically refusing to run inside cleanup
atomically_nested_guarded(c) ==
    IF c.in_cleanup THEN Raise(c, "NotReentrant")
    ELSE [c EXCEPT !.reentrant = @ + 1]

\* Controller.atomically / STMHistory.atomically called while in a block
atomically_nested(c) ==
    IF c.active THEN [c EXCEPT !.reentrant = @ + 1]
    ELSE Raise(c, "Unreachable")

\* a commit hook, called as f(*a)
CallHook(c, e) ==
    LET c1 == [c EXCEPT !.hook_log = Append(@, e)] IN
    CASE e.h = "h_log" -> c1
      [] e.h = "h_raise" -> Raise(c1, "E_hook")
      [] e.h = "h_sched" -> schedule(c1, HookTarget, NoLayer, FALSE)
      [] e.h = "h_atomic" -> atomically_nested(c1)
      [] \E x \in AllSubjects : e.h = FinishHook[x] ->
            _finish(c1, CHOOSE x \in AllSubjects : e.h = FinishHook[x])
      [] \E x \in Listeners : e.h = CheckConstHook[x] ->
            LET x == CHOOSE y \in Listeners : e.h = CheckConstHook[y]
            IN  IF c1.cls[x] = "Cell" THEN Cell_check_const(c1, x)
                ELSE _check_const(c1, x)

\* a manager's __exit__(typ, val, tb)
CallExit(c, m) ==
    LET c1 == [c EXCEPT !.exits = Append(@, <<m, c.typ>>)] IN
    CASE m = "m_plain" -> c1
      [] m = "m_raise" -> Raise(c1, "E_exit")
      [] m = "m_sched" -> schedule(c1, HookTarget, NoLayer, FALSE)
      [] m = "m_nest" ->
            Then(atomically_nested(c1), LAMBDA c2 : manage(c2, "m_plain"))

\* the for loop over at_commit after one hook: the except clause, the end
\* of the list, or the next hook
commit_next(c, i) ==
    IF c.err # None \/ i + 1 > Len(c.at_commit) THEN after_hooks(caught(c))
    ELSE [c EXCEPT !.ci = i + 1]

\* one turn of the for loop over at_commit
commit_step(c) == commit_next(CallHook(c, c.at_commit[c.ci]), c.ci)

\* one turn of the while loop over the managers
exit_step(c) ==
    caught(CallExit([c EXCEPT !.exit_todo = Front(@)], Last(c.exit_todo)))

\* the final cleanup handing control back to the loop of _process
cleanup_end_loops(c) ==
    LET c1 == [c EXCEPT !.at_commit = <<>>, !.undo = <<>>,
                        !.in_cleanup = FALSE, !.snap = NoSnap,
                        !.current_listener = None, !.last_listener = None,
                        !.last_notified = NoNotified, !.last_save = NoSave]
    IN  IF c.ckind = "inner" /\ c.typ # None
        THEN process_except([c1 EXCEPT !.err = c.typ])
        ELSE LET c2 == [c1 EXCEPT !.pc = "outer", !.ckind = "none",
                                  !.typ = None, !.touched = {}]
             IN  [c2 EXCEPT !.commit_snap = Obs(c2)]

\* the finally clauses of both cleanups, and what the caller does next
cleanup_end(c) ==
    LET c1 == [c EXCEPT !.at_commit = <<>>, !.undo = <<>>,
                        !.in_cleanup = FALSE, !.snap = NoSnap,
                        !.current_listener = None, !.last_listener = None,
                        !.last_notified = NoNotified, !.last_save = NoSave]
    IN  IF c.ckind = "inner"
        THEN IF c.typ = None
             THEN LET c2 == [c1 EXCEPT !.pc = "outer", !.ckind = "none",
                                       !.touched = {}]
                  IN  [c2 EXCEPT !.commit_snap = Obs(c2)]
             ELSE process_except([c1 EXCEPT !.err = c.typ])
        ELSE [c1 EXCEPT !.active = FALSE, !.pc = "idle", !.result = c.typ,
                        !.typ = None, !.ckind = "none"]

\* ------------------------------------------------------------ the block
TypeLayer(c) == \A l \in Listeners : c.layer[l] <= MaxLayer \/ c.layer[l] = Max

\* an exception that nothing catches before _process does
Caught(c) == IF c.err # None THEN Throw(c) ELSE c

\* the outcome of an API call made by the user function or by a rule
Do(c) ==
    /\ TypeLayer(c)
    /\ Install(Caught(IF c.err # None THEN c ELSE [c EXCEPT !.ops = @ + 1]))

InUser == pc = "user" /\ ops < MaxOps

Init ==
    /\ active = FALSE /\ in_cleanup = FALSE
    /\ undo = <<>> /\ at_commit = <<>> /\ managers = <<>>
    /\ reads = {} /\ writes = {} /\ has_run = EmptyMap
    /\ layers = <<>> /\ queues = EmptyMap /\ to_retry = {}
    /\ current_listener = None /\ last_listener = None
    /\ last_notified = NoNotified /\ last_save = NoSave
    /\ readonly = FALSE
    /\ layer = [l \in Listeners |->
                    IF l = "t0" THEN 0 ELSE IF l = "t1" THEN 1 ELSE 2]
    /\ next_subject = [l \in Listeners |-> <<>>]
    /\ next_listener = [s \in AllSubjects |-> <<>>]
    /\ value = [s \in AllSubjects |-> 0]
    /\ pc = "idle" /\ stack = <<>> /\ ci = 0 /\ exit_todo = <<>>
    /\ typ = None /\ ckind = "none" /\ ops = 0
    /\ hook_log = <<>> /\ enters = [m \in Managers |-> 0] /\ exits = <<>>
    /\ redo_ran = FALSE /\ reentrant = 0
    /\ first_err = None /\ result = None
    /\ manage_noop = FALSE /\ rb_len = 0 /\ skipped = 0 /\ touched = {}
    /\ block_snap = NoSnap /\ commit_snap = NoSnap
    /\ snap = NoSnap /\ rolled = FALSE /\ nreg = 0 /\ rolled_back = {}
    /\ wrote_ext = {} /\ notes = {} /\ prog = NoProg
    /\ set_by = [s \in AllSubjects |-> Sentinel]
    /\ needs_init = [l \in Listeners |-> TRUE]
    /\ cls = [l \in Listeners |-> "TestListener"]
    /\ rule = [l \in Listeners |-> None]
    /\ reset = [s \in AllSubjects |-> NoReset]
    /\ log = <<>> /\ chg = {} /\ sets = {}
    /\ call_queue = <<>> /\ callback_active = FALSE /\ arranged = 0
    /\ executed = <<>> /\ ncalls = 0 /\ undone = {}
    /\ override = NotSet
    /\ lnk = [k \in LinkIds |-> NoLink]
    /\ heads = [next_listener |-> [s \in Subjects |-> None],
                next_subject |-> [l \in Listeners |-> None]]
    /\ dead = {}
    /\ it = NoIter
    /\ _now = 0 /\ _schedule = <<Max>> /\ _events = {}
    /\ running = FALSE /\ stop_requested = FALSE
    /\ queue = NoLocal /\ stopped_at = NoSave

\* Controller.atomically(func) from outside a block, up to the call of func
Atomically ==
    /\ pc = "idle" /\ ~active
    /\ Install([St EXCEPT !.active = TRUE, !.pc = "user",
                          !.block_snap = Obs(St), !.commit_snap = Obs(St),
                          !.touched = {}, !.manage_noop = FALSE,
                          !.rb_len = 0, !.skipped = 0, !.snap = NoSnap,
                          !.rolled_back = {}, !.wrote_ext = {},
                          !.notes = {}, !.chg = {}, !.log = <<>>,
                          !.sets = {}, !.override = NotSet,
                          !.hook_log = <<>>,
                          !.enters = [m \in Managers |-> 0],
                          !.exits = <<>>, !.redo_ran = FALSE,
                          !.reentrant = 0, !.first_err = None,
                          !.result = None])

Schedule(l, src) == InUser /\ Do(schedule(St, l, src, FALSE))
Cancel(l) == InUser /\ Do([cancel(St, l) EXCEPT !.snap = NoSnap])
Manage(m) == InUser /\ Do(manage(St, m))
OnCommit(h) == InUser /\ Do(on_commit(St, h))
OnUndo(u) == InUser /\ Do(on_undo(St, UUser(u)))
Used(s) == InUser /\ Do(used(St, s))
Changed(s) == InUser /\ Do(changed(St, s))
Setattr(s, v) == InUser /\ value[s] # v /\ Do(setattr_value(St, s, v))
mark_rolled(c, sp) ==
    [c EXCEPT !.rolled = c.err = None /\ snap.taken /\ sp = snap.sp]

RollbackTo(sp) ==
    /\ InUser /\ sp >= 0 /\ sp < Len(undo)
    /\ Do(mark_rolled(rollback_to(St, sp), sp))

\* sp = ctrl.savepoint() in user code; the observable state is noted with it
Savepoint ==
    /\ InUser /\ ~snap.taken
    /\ Install([St EXCEPT !.snap = Obs(St)])
Run(l) == InUser /\ Len(stack) < 2 /\ Do(run_begin(St, l, FALSE))

Returned(c) == TypeLayer(c) /\ Install(Caught(c))

\* listener.run() returns to Controller.run
RuleReturn(asc) ==
    /\ pc = "user" /\ stack # <<>>
    /\ asc \/ Cardinality(reads) > 1 \/ Cardinality(writes) > 1
    /\ Returned(run_end(St, asc))

\* the user function or the running rule raises
UserRaise ==
    /\ pc = "user"
    /\ Install(Throw(Raise(St, IF stack = <<>> THEN "E_func" ELSE "E_rule")))

\* func returns to _process
FuncReturn ==
    /\ pc = "user" /\ stack = <<>>
    /\ Install([St EXCEPT !.pc = "outer"])

\* _process: the test of the outer while loop succeeds
ProcessEnter ==
    /\ pc = "outer" /\ (layers # <<>> \/ at_commit # <<>>)
    /\ Install([St EXCEPT !.pc = "inner"])

\* _process returns, STMHistory.atomically calls cleanup()
ProcessReturn ==
    /\ pc = "outer" /\ layers = <<>> /\ at_commit = <<>>
    /\ Install(cleanup_begin(St, None, "final"))

\* the head of one turn of the inner while loop: the retry, if any
AfterRetry == IF to_retry # {} THEN _retry(St) ELSE St

\* _retry raises, or leaves no layer for queues[layers[0]]
LoopFails(c) ==
    /\ c.err # None \/ c.layers = <<>>
    /\ Install(Throw(IF c.err # None THEN c ELSE Raise(c, "IndexError")))

\* the lowest layer has a listener: it is taken out and run
LoopRuns(c, l) ==
    /\ c.err = None /\ c.layers # <<>>
    /\ l \in c.queues[c.layers[1]]
    /\ Install(Caught(run_begin(
            on_undo([c EXCEPT !.queues[c.layers[1]] = @ \ {l},
                              !.touched = @ \cup {l}],
                    USchedule(l)),
            l, TRUE)))

\* the lowest layer is empty: it is dropped
LoopPops(c) ==
    /\ c.err = None /\ c.layers # <<>>
    /\ c.queues[c.layers[1]] = {}
    /\ Install([c EXCEPT !.queues = DelKey(@, c.layers[1]),
                         !.layers = heappop(@)])

ProcessFail == pc = "inner" /\ layers # <<>> /\ LoopFails(AfterRetry)

ProcessRun(l) == pc = "inner" /\ layers # <<>> /\ LoopRuns(AfterRetry, l)

ProcessPopLayer == pc = "inner" /\ layers # <<>> /\ LoopPops(AfterRetry)

\* _process calls cleanup() at the end of the inner loop
ProcessCommit ==
    /\ pc = "inner" /\ layers = <<>>
    /\ Install(cleanup_begin(St, None, "inner"))

CommitStep == pc = "commit" /\ Install(commit_step(St))
ExitStep == pc = "exit" /\ exit_todo # <<>> /\ Install(exit_step(St))
CleanupEnd == pc = "exit" /\ exit_todo = <<>> /\ Install(cleanup_end(St))

\* what every specification does: the block's own control flow
Control ==
    \/ \E asc \in BOOLEAN : RuleReturn(asc)
    \/ UserRaise
    \/ FuncReturn
    \/ ProcessEnter
    \/ ProcessReturn
    \/ ProcessFail
    \/ \E l \in Listeners : ProcessRun(l)
    \/ ProcessPopLayer
    \/ ProcessCommit
    \/ CommitStep
    \/ ExitStep
    \/ CleanupEnd

\* user code that works on the history: managers, hooks, undo, attributes
Next ==
    \/ Atomically
    \/ Control
    \/ \E l \in Pair : Schedule(l, NoLayer)
    \/ \E m \in Managers : Manage(m)
    \/ \E h \in Hooks : OnCommit(h)
    \/ \E u \in UndoFns : OnUndo(u)
    \/ Used("s1")
    \/ \E v \in Values : Setattr("s1", v)
    \/ RollbackTo(0)

Spec == Init /\ [][Next]_vars

\* one block of user code that works on the queues and the dependency
\* graph; a source layer is the layer of some listener
NextCtl ==
    \/ ops = 0 /\ Atomically
    \/ Control
    \/ \E l \in Pair, src \in {NoLayer} \cup {layer[k] : k \in Pair} :
          Schedule(l, src)
    \/ \E l \in Pair : Cancel(l)
    \/ \E s \in Subjects : Used(s)
    \/ Changed("s1")
    \/ \E v \in Values : Setattr("s1", v)
    \/ OnCommit("h_sched")
    \/ Savepoint
    \/ snap.taken /\ RollbackTo(snap.sp)
    \/ \E l \in Pair : Run(l)

SpecCtl == Init /\ [][NextCtl]_vars

\* ------------------------------------------------- rules that read and write
\* a rule calling used() on every subject it reads
RECURSIVE use_all(_, _)
use_all(c, ss) ==
    IF ss = <<>> \/ c.err # None THEN c
    ELSE use_all(used(c, Head(ss)), Tail(ss))

\* a rule calling changed() on every subject it writes
RECURSIVE change_all(_, _)
change_all(c, ss) ==
    IF ss = <<>> \/ c.err # None THEN c
    ELSE change_all(changed(c, Head(ss)), Tail(ss))

\* listener.run() of a test rule: the reads, then the writes
rule_body(c, l) ==
    Then(use_all(c, SubjectOrder(c.prog[l].r, TRUE)), LAMBDA c1 :
        change_all(c1, SubjectOrder(c1.prog[l].w, TRUE)))

\* the test links a subject to a listener whose layer is above the
\* subject's, as an earlier run that read the subject has left them
TestLink(s, l) ==
    /\ pc = "idle" /\ prog = NoProg
    /\ layer[l] > SubjectLayer
    /\ \A x \in Subjects : next_listener[x] = <<>>
    /\ Install(Link(St, s, l))

\* the test assigns the rules of its listeners before the first block
SetRules(p) ==
    /\ pc = "idle" /\ ops < MaxOps /\ prog = NoProg /\ p # NoProg
    /\ Install([St EXCEPT !.prog = p, !.ops = @ + 1])

\* the rest of Controller.run once the rule has returned or raised
RuleDone(b, asc) ==
    /\ asc \/ Cardinality(b.reads) > 1 \/ Cardinality(b.writes) > 1
    /\ Install(Caught(Then(b, LAMBDA x : run_end(x, asc))))

\* the rule of the running listener runs, and Controller.run finishes
RuleRuns(asc) ==
    /\ pc = "user" /\ stack # <<>>
    /\ RuleDone(rule_body(St, Last(stack).listener), asc)

\* the outcome of a call made by the user function
Called(c) == Install(Caught(IF c.err # None THEN c ELSE [c EXCEPT !.ops = @ + 1]))

\* the user function schedules a listener
UserSchedule(l) ==
    /\ InUser /\ stack = <<>>
    /\ Called(schedule(St, l, NoLayer, FALSE))

\* the user function changes a subject
UserChanged(s) ==
    /\ InUser /\ stack = <<>>
    /\ Called(changed([St EXCEPT !.wrote_ext = @ \cup {s}], s))

\* one block whose user function schedules listeners and changes subjects,
\* and whose listeners run the rules assigned to them
NextFlow ==
    \/ \E s \in Subjects, l \in Listeners : TestLink(s, l)
    \/ \E p \in Progs : SetRules(p)
    \/ ~block_snap.taken /\ Atomically
    \/ \E l \in Listeners : UserSchedule(l)
    \/ \E s \in Subjects : UserChanged(s)
    \/ FuncReturn
    \/ ProcessEnter
    \/ ProcessReturn
    \/ ProcessFail
    \/ \E l \in Listeners : ProcessRun(l)
    \/ \E asc \in BOOLEAN : RuleRuns(asc)
    \/ ProcessPopLayer
    \/ ProcessCommit
    \/ ExitStep
    \/ CleanupEnd

SpecFlow == Init /\ [][NextFlow]_vars

\* ------------------------------------------------------ blocks over cells
\* the values that user code assigns to the Value cell
Inputs == 0..2

\* the cells a test builds: the Value cell s2, discrete or not; the rule
\* cells t0 and t1 with their rules, a constant rule t0 discrete or not;
\* and the listener t2 whose rule assigns s2
Fixtures ==
    [r0 : {None, "const", "half", "cond"},
     r1 : {None, "succ_src", "succ_t0", "log_src", "log_t0"},
     r2 : {None, "set1"},
     dsrc : BOOLEAN, d0 : BOOLEAN]

\* the constructors: Value(0, discrete), ReadOnlyCell(rule, value, discrete)
\* with value None, or False if discrete, and TestListener()
CellSetup(fx) ==
    /\ pc = "idle" /\ ~block_snap.taken
    /\ cls = [l \in Listeners |-> "TestListener"]
    /\ reset = [s \in AllSubjects |-> NoReset]
    /\ rule = [l \in Listeners |-> None]
    /\ fx.r0 # None \/ fx.r1 # None \/ fx.r2 # None
    /\ fx.d0 => fx.r0 = "const"
    /\ Install([St EXCEPT
            !.rule = [l \in Listeners |->
                        IF l = "t0" THEN fx.r0
                        ELSE IF l = "t1" THEN fx.r1 ELSE fx.r2],
            !.cls = [l \in Listeners |->
                        IF (l = "t0" /\ fx.r0 # None)
                           \/ (l = "t1" /\ fx.r1 # None)
                        THEN "ReadOnlyCell" ELSE "TestListener"],
            !.layer = [l \in Listeners |-> 0],
            !.reset = [s \in AllSubjects |->
                        IF (s = "s2" /\ fx.dsrc) \/ (s = "t0" /\ fx.d0)
                        THEN 0 ELSE NoReset],
            !.value = [s \in AllSubjects |->
                        IF s \in {"t0", "t1"} /\ ~(s = "t0" /\ fx.d0)
                        THEN NoneVal ELSE 0]])

\* the rule cells that the rule of a listener may read
DepsOf(r) ==
    CASE r \in {"succ_t0", "log_t0"} -> {"t0"}
      [] r = "cond" -> {"t1"}
      [] OTHER -> {}

\* cells are first read from the bottom up: a rule never meets a cell that
\* still needs its first run
Ready(l) ==
    /\ rule[l] # None
    /\ \A d \in DepsOf(rule[l]) : ~needs_init[d]

\* the user function schedules a cell or a listener, as reading a new rule
\* cell outside a block does (atomically(schedule, self))
CellSchedule(l) == Ready(l) /\ UserSchedule(l)

\* the user function assigns the Value cell
UserSet(v, same) ==
    /\ InUser /\ stack = <<>>
    /\ same \/ v = value["s2"]
    /\ Called(set_value(St, "s2", v, same))

\* the user function runs a test listener itself, as testValueSetLock does
UserRun(l) ==
    /\ InUser /\ stack = <<>>
    /\ cls[l] = "TestListener" /\ rule[l] # None
    /\ Called(run_begin(St, l, FALSE))

\* listener.run() of the running listener, and the rest of Controller.run
CellRuns(same, asc) ==
    /\ pc = "user" /\ stack # <<>>
    /\ same \/ cls[Last(stack).listener] = "TestListener"
    /\ RuleDone(listener_run(St, Last(stack).listener, same), asc)

NextCells ==
    \/ \E fx \in Fixtures : CellSetup(fx)
    \/ Atomically
    \/ \E l \in Listeners : CellSchedule(l)
    \/ \E v \in Inputs, same \in BOOLEAN : UserSet(v, same)
    \/ \E l \in Listeners : UserRun(l)
    \/ FuncReturn
    \/ ProcessEnter
    \/ ProcessReturn
    \/ \E l \in Listeners : ProcessRun(l)
    \/ \E same, asc \in BOOLEAN : CellRuns(same, asc)
    \/ ProcessPopLayer
    \/ ProcessCommit
    \/ CommitStep
    \/ CleanupEnd

SpecCells == Init /\ [][NextCells]_vars

\* ------------------------------------------------------------ observers
\* STMHistory.setattr on a field of a cell: the value it had is logged, then
\* the field is assigned
setattr_cell(c, ob, attr, sv, n) ==
    LET old ==
          CASE attr = "_value" -> U("setattr", ob, attr, None, c.value[ob], {})
            [] attr = "_set_by" -> U("setattr", ob, attr, c.set_by[ob], 0, {})
            [] attr = "_needs_init" ->
                  U("setattr", ob, attr, None,
                    IF c.needs_init[ob] THEN 1 ELSE 0, {})
    IN  Then(on_undo(c, old), LAMBDA c1 :
            CASE attr = "_value" -> [c1 EXCEPT !.value[ob] = n]
              [] attr = "_set_by" -> [c1 EXCEPT !.set_by[ob] = sv]
              [] attr = "_needs_init" -> [c1 EXCEPT !.needs_init[ob] = (n = 1)])

\* stm.ReadOnlyCell.run, for a rule that reads nothing and returns v
stm_ReadOnlyCell_run(c, cell, v) ==
    Then(IF c.needs_init[cell]
         THEN setattr_cell(c, cell, "_needs_init", None, 0) ELSE c,
         LAMBDA c1 :
            IF v # c1.value[cell]
            THEN Then(IF c1.set_by[cell] = Sentinel
                      THEN Then(setattr_cell(c1, cell, "_set_by", cell, 0),
                                LAMBDA c2 : on_commit(c2, FinishHook[cell]))
                      ELSE c1,
                      LAMBDA c3 :
                        Then(setattr_cell(c3, cell, "_value", None, v),
                             LAMBDA c4 : changed(c4, cell)))
            ELSE c1)

\* Controller.run(cell) called while a rule runs, with all of cell.run()
run_nested(c, cell, v, asc) ==
    Then(run_begin(c, cell, FALSE), LAMBDA c1 :
        Then(stm_ReadOnlyCell_run(c1, cell, v), LAMBDA c2 : run_end(c2, asc)))

\* stm.ReadOnlyCell.get_value inside a block: a cell that has not run yet is
\* run on the spot, then the read is recorded
stm_ReadOnlyCell_get_value(c, cell, v, asc) ==
    Then(IF c.needs_init[cell] THEN run_nested(c, cell, v, asc) ELSE c,
         LAMBDA c1 : IF c1.current_listener # None THEN used(c1, cell)
                     ELSE c1)

\* an observer is being run
ObserverRuns == \E i \in DOMAIN stack : layer[stack[i].listener] = Max

\* the test makes a listener an observer: ObserverCell.layer is Max
MakeObserver(l) ==
    /\ pc = "idle" /\ ~block_snap.taken
    /\ \A k \in Listeners : layer[k] # Max
    /\ Install([St EXCEPT !.layer[l] = Max])

\* the running rule reads a subject, or changes one
RuleUsed(s) == stack # <<>> /\ Used(s)
RuleChanged(s) == stack # <<>> /\ Changed(s)

\* the running rule reads the rule cell t0, whose rule returns v
RuleReads(v, asc) ==
    /\ InUser /\ stack # <<>> /\ Last(stack).listener # "t0"
    /\ asc \/ Cardinality(reads) > 1
    /\ Do(stm_ReadOnlyCell_get_value(St, "t0", v, asc))

\* the running rule runs another listener itself
RuleRun(l) == stack # <<>> /\ Run(l)

\* one block whose user function schedules a listener and an observer; their
\* rules read and change subjects, read a rule cell and run listeners
NextObs ==
    \/ MakeObserver("t2")
    \/ ~block_snap.taken /\ Atomically
    \/ \E l \in {"t1", "t2"} : UserSchedule(l)
    \/ \E s \in Subjects : RuleUsed(s)
    \/ \E s \in Subjects : RuleChanged(s)
    \/ \E v \in Values, asc \in BOOLEAN : RuleReads(v, asc)
    \/ \E l \in {"t1", "t2"} : RuleRun(l)
    \/ \E asc \in BOOLEAN : RuleReturn(asc)
    \/ UserRaise
    \/ FuncReturn
    \/ ProcessEnter
    \/ ProcessReturn
    \/ \E l \in Listeners : ProcessRun(l)
    \/ ProcessPopLayer
    \/ ProcessCommit
    \/ CommitStep
    \/ CleanupEnd

SpecObs == Init /\ [][NextObs]_vars

\* ------------------------------------------------- EventLoop (activity.py)
\* the calls a test makes: log.append(n), or loop.call(log.append, n)
MaxCalls == 3
CallKinds == {"log", "enq"}

\* EventLoop._callback_if_needed
_callback_if_needed(c) ==
    IF c.call_queue # <<>> /\ ~c.callback_active
    THEN [c EXCEPT !.arranged = @ + 1, !.callback_active = TRUE]
    ELSE c

\* self._call_queue.append(...): the list is changed in place, and the local
\* variable of _loop sees the new item as long as it is bound to that list
list_append(c, e) ==
    [c EXCEPT !.call_queue = Append(@, e),
              !.queue.items = IF c.queue.shared THEN Append(@, e) ELSE @]

\* EventLoop.call forgetting the undo entry
call_unlogged(c, kind) ==
    _callback_if_needed([c EXCEPT
        !.call_queue = Append(@, <<c.ncalls + 1, kind>>),
        !.ncalls = @ + 1])

\* EventLoop.call inside a block; the call is numbered as it is made
call(c, kind) ==
    LET id == c.ncalls + 1
    IN  Then(on_undo([list_append(c, <<id, kind>>) EXCEPT !.ncalls = id],
                     UCallPop(id)),
             LAMBDA c1 : _callback_if_needed(c1))

\* a modifier called outside a block: one block of its own, which commits
\* and returns
call_atomically(c, kind) ==
    [call([c EXCEPT !.active = TRUE], kind) EXCEPT
        !.active = FALSE, !.undo = <<>>, !.result = None]

\* EventLoop._split_queue: the head that flush executes, and what stays
split_count(q, count) ==
    IF count = 0 \/ count > Len(q) THEN Len(q) ELSE count
split_head(q, count) == SubSeq(q, 1, split_count(q, count))
split_rest(q, count) == SubSeq(q, split_count(q, count) + 1, Len(q))

\* EventLoop.stop
stop(c) ==
    IF ~c.running THEN Raise(c, "AssertionError")
    ELSE [c EXCEPT !.stop_requested = TRUE, !.stopped_at = Len(c.executed)]

\* the for loop of flush: each call of the head is executed; log.append(n)
\* does no more, loop.call(log.append, n) makes a call, and EventLoop.stop
\* asks the loop to stop
RECURSIVE flush_loop(_, _)
flush_loop(c, head) ==
    IF head = <<>> \/ c.err # None THEN c
    ELSE LET c1 == [c EXCEPT !.executed = Append(@, Head(head)[1])]
         IN  flush_loop(CASE Head(head)[2] = "log" -> c1
                          [] Head(head)[2] = "enq" -> call_atomically(c1, "log")
                          [] Head(head)[2] = "stop" -> stop(c1),
                        Tail(head))

\* EventLoop._split_queue: a queue that is not empty is replaced by a new
\* list, its tail; the list it was stays as it is
_split_queue(c, count) ==
    [c EXCEPT !.call_queue = split_rest(@, count),
              !.queue.shared = IF c.call_queue # <<>> THEN FALSE ELSE @,
              !.result = None]

\* EventLoop.flush taking the whole queue whatever count is
flush_all(c, count) ==
    IF c.active THEN Raise(c, "AssertionError")
    ELSE _callback_if_needed(
            flush_loop([c EXCEPT !.call_queue = <<>>, !.result = None],
                       c.call_queue))

\* EventLoop.flush(count); _split_queue is a block of its own that returns
flush(c, count) ==
    IF c.active THEN Raise(c, "AssertionError")
    ELSE _callback_if_needed(
            flush_loop(_split_queue(c, count),
                       split_head(c.call_queue, count)))

\* EventLoop._callback, called by the external loop
_callback(c) == flush([c EXCEPT !.callback_active = FALSE], 1)

\* loop.call(...) from outside a block
LoopCall(kind) ==
    /\ pc = "idle" /\ ncalls < MaxCalls
    /\ Install(call_atomically(St, kind))

\* loop.call(...) by the user function of a block
BlockCall(kind) ==
    /\ InUser /\ stack = <<>> /\ ncalls < MaxCalls
    /\ Do(call(St, kind))

LoopPoll == pc = "idle" /\ Install(flush(St, 1))
LoopFlush(count) == pc = "idle" /\ Install(flush(St, count))

\* the external loop calls a callback it was handed
LoopCallback ==
    /\ pc = "idle" /\ arranged > 0
    /\ Install(_callback([St EXCEPT !.arranged = @ - 1]))

\* calls, polls, flushes and callbacks in any order, and blocks whose user
\* function makes calls, takes a savepoint, rolls back to it, or fails
NextLoop ==
    \/ \E kind \in CallKinds : LoopCall(kind)
    \/ LoopPoll
    \/ \E count \in {0, 2} : LoopFlush(count)
    \/ LoopCallback
    \/ Atomically
    \/ \E kind \in CallKinds : BlockCall(kind)
    \/ Savepoint
    \/ snap.taken /\ RollbackTo(snap.sp)
    \/ UserRaise
    \/ FuncReturn
    \/ ProcessReturn
    \/ CleanupEnd

SpecLoop == Init /\ [][NextLoop]_vars

\* ------------------------------------------------------ EventLoop.run
\* the calls queued for a run: EventLoop.stop as well
RunKinds == CallKinds \cup {"stop"}

\* Time.next_event_time: None if the heap holds no event
next_event_time(c) ==
    IF c._schedule[1] = Max THEN None ELSE c._schedule[1] - c._now

\* the test of the while loop of EventLoop._loop
loop_test(c) ==
    /\ c.queue.items # <<>> \/ next_event_time(c) # None
    /\ ~c.stop_requested

\* loop.call(...) before the loop is run
RunCall(kind) == ~running /\ LoopCall(kind)

\* EventLoop.run up to the first test of the loop: _loop binds its local
\* variable queue to the list that self._call_queue holds
RunStart ==
    /\ pc = "idle" /\ ~running
    /\ Install([St EXCEPT !.stop_requested = FALSE, !.running = TRUE,
                          !.stopped_at = NoSave,
                          !.queue = [items |-> call_queue, shared |-> TRUE]])

\* one turn of the loop
RunTurn ==
    /\ pc = "idle" /\ running /\ loop_test(St)
    /\ Install(flush(St, 1))

\* the test fails: _loop returns, and the finally clause of run
RunReturn ==
    /\ pc = "idle" /\ running /\ ~loop_test(St)
    /\ Install([St EXCEPT !.running = FALSE, !.stop_requested = FALSE,
                          !.queue = NoLocal])

\* calls are queued, then the loop is run
NextRun ==
    \/ \E kind \in RunKinds : RunCall(kind)
    \/ RunStart
    \/ RunTurn
    \/ RunReturn

SpecRun == Init /\ [][NextRun]_vars

\* ------------------------------------------------- cells that are written
\* the cells of the test: the Value cell s2 = Value(0), the Cell
\* t0 = Cell(lambda: s2.value + 1, 0) and, if dep, the rule cell
\* t1 = Cell(lambda: t0.value + 1), which is a ReadOnlyCell
RWSetup(dep) ==
    /\ pc = "idle" /\ ~block_snap.taken
    /\ cls = [l \in Listeners |-> "TestListener"]
    /\ rule = [l \in Listeners |-> None]
    /\ Install([St EXCEPT
            !.rule = [l \in Listeners |->
                        IF l = "t0" THEN "succ_src"
                        ELSE IF l = "t1" /\ dep THEN "succ_t0" ELSE None],
            !.cls = [l \in Listeners |->
                        IF l = "t0" THEN "Cell"
                        ELSE IF l = "t1" /\ dep THEN "ReadOnlyCell"
                        ELSE "TestListener"],
            !.layer = [l \in Listeners |-> 0],
            !.value = [s \in AllSubjects |->
                        IF s = "t1" THEN NoneVal ELSE 0]])

\* a cell that has not run yet is read for the first time, outside a rule:
\* schedule(self)
FirstRead(l) ==
    /\ pc = "user" /\ stack = <<>> /\ Ready(l) /\ needs_init[l]
    /\ cls[l] \in {"Cell", "ReadOnlyCell"}
    /\ Install(Caught(schedule(St, l, NoLayer, FALSE)))

\* the user function assigns the Cell
UserSetCell(v, same) ==
    /\ InUser /\ stack = <<>> /\ cls["t0"] = "Cell"
    /\ same \/ v = value["t0"]
    /\ LET r == Cell_set_value(St, "t0", v, same)
       IN  Called(IF r.err = None THEN [r EXCEPT !.override = v] ELSE r)

\* blocks whose user function reads the cells for the first time and
\* assigns the Value cell and the Cell
NextRW ==
    \/ \E dep \in BOOLEAN : RWSetup(dep)
    \/ Atomically
    \/ \E l \in Listeners : FirstRead(l)
    \/ \E v \in Inputs, same \in BOOLEAN : UserSet(v, same)
    \/ \E v \in Inputs, same \in BOOLEAN : UserSetCell(v, same)
    \/ FuncReturn
    \/ ProcessEnter
    \/ ProcessReturn
    \/ \E l \in Listeners : ProcessRun(l)
    \/ \E same, asc \in BOOLEAN : CellRuns(same, asc)
    \/ ProcessPopLayer
    \/ ProcessCommit
    \/ CommitStep
    \/ CleanupEnd

SpecRW == Init /\ [][NextRW]_vars

\* -------------------------------------------- a cell that reads itself
\* the cells of testSelfDependencyDoesNotIncreaseLayer: c1 = Value(0) is s2,
\* c2 = Cell(lambda: c1.value + c2.value, 0) is t0; if dep, the rule cell t1
\* reads c2
SelfSetup(dep) ==
    /\ pc = "idle" /\ ~block_snap.taken
    /\ cls = [l \in Listeners |-> "TestListener"]
    /\ rule = [l \in Listeners |-> None]
    /\ Install([St EXCEPT
            !.rule = [l \in Listeners |->
                        IF l = "t0" THEN "acc"
                        ELSE IF l = "t1" /\ dep THEN "succ_t0" ELSE None],
            !.cls = [l \in Listeners |->
                        IF l = "t0" THEN "Cell"
                        ELSE IF l = "t1" /\ dep THEN "ReadOnlyCell"
                        ELSE "TestListener"],
            !.layer = [l \in Listeners |-> 0],
            !.value = [s \in AllSubjects |->
                        IF s = "t1" THEN NoneVal ELSE 0]])

\* blocks whose user function reads the cells for the first time and
\* assigns the Value cell
NextSelf ==
    \/ \E dep \in BOOLEAN : SelfSetup(dep)
    \/ Atomically
    \/ \E l \in Listeners : FirstRead(l)
    \/ \E v \in Inputs, same \in BOOLEAN : UserSet(v, same)
    \/ FuncReturn
    \/ ProcessEnter
    \/ ProcessReturn
    \/ \E l \in Listeners : ProcessRun(l)
    \/ \E same, asc \in BOOLEAN : CellRuns(same, asc)
    \/ ProcessPopLayer
    \/ ProcessCommit
    \/ CommitStep
    \/ CleanupEnd

SpecSelf == Init /\ [][NextSelf]_vars

\* ------------------------------------------------------- the Time service
\* Time._set(when), a modifier
_set(c, when) ==
    Then(change_attr(c, "Time", "_now", None, when, <<>>), LAMBDA c1 :
        Cell_set_value(c1, "t2", when, FALSE))

\* Time.advance(interval)
advance(c, interval) == _set(c, c._now + interval)

\* a Time service whose clock is set by advance (auto_update is false),
\* after its cells have run for the first time: t2 is the _tick cell, s2
\* the _schedule cell, t0 the rule _updated; t1 is a rule cell that was not
\* read yet and calls Time.reached: for one moment, or for a second moment
\* once the first was reached
TimeSetup(chained) ==
    /\ pc = "idle" /\ ~block_snap.taken
    /\ cls = [l \in Listeners |-> "TestListener"]
    /\ rule = [l \in Listeners |-> None]
    /\ Install([St EXCEPT
            !.rule = [l \in Listeners |->
                        CASE l = "t0" -> "_updated"
                          [] l = "t1" -> IF chained THEN "chain" ELSE "alarm"
                          [] l = "t2" -> "_tick"],
            !.cls = [l \in Listeners |->
                        IF l = "t2" THEN "Cell" ELSE "ReadOnlyCell"],
            !.needs_init = [l \in Listeners |-> l = "t1"],
            !.layer = [l \in Listeners |->
                        CASE l = "t0" -> 3 [] l = "t1" -> 0 [] l = "t2" -> 2],
            !.value = [s \in AllSubjects |->
                        IF s \in {"t0", "t1"} THEN NoneVal ELSE 0],
            !.next_subject = [l \in Listeners |->
                        CASE l = "t0" -> <<"s2", "t2">>
                          [] l = "t1" -> <<>>
                          [] l = "t2" -> <<"t2">>],
            !.next_listener = [s \in AllSubjects |->
                        CASE s = "t2" -> <<"t0", "t2">>
                          [] s = "s2" -> <<"t0">>
                          [] OTHER -> <<>>]])

\* the user function calls Time.advance(interval)
TimeAdvance(interval) ==
    /\ InUser /\ stack = <<>> /\ rule["t0"] = "_updated"
    /\ _now + interval <= MaxNow
    /\ Called(advance(St, interval))

\* blocks whose user function reads the waiting rule cell for the first
\* time and advances the clock
NextTime ==
    \/ \E chained \in BOOLEAN : TimeSetup(chained)
    \/ Atomically
    \/ \E l \in Listeners : FirstRead(l)
    \/ \E interval \in 1..2 : TimeAdvance(interval)
    \/ FuncReturn
    \/ ProcessEnter
    \/ ProcessReturn
    \/ ProcessFail
    \/ \E l \in Listeners : ProcessRun(l)
    \/ \E same, asc \in BOOLEAN : CellRuns(same, asc)
    \/ ProcessPopLayer
    \/ ProcessCommit
    \/ CommitStep
    \/ CleanupEnd

SpecTime == Init /\ [][NextTime]_vars

\* ------------------------------------------------------------------ Link
\* link(): the listener that the weak reference of a Link refers to, None
\* once the listener is gone
deref(c, k) ==
    IF c.lnk[k].referent \in c.dead THEN None ELSE c.lnk[k].referent

\* ob.next_listener of a subject or a Link
get_next_listener(c, ob) ==
    IF ob \in LinkIds THEN c.lnk[ob].next_listener
    ELSE c.heads.next_listener[ob]

set_next_listener(c, ob, v) ==
    IF ob \in LinkIds THEN [c EXCEPT !.lnk[ob].next_listener = v]
    ELSE [c EXCEPT !.heads.next_listener[ob] = v]

\* ob.next_subject of a listener or a Link
get_next_subject(c, ob) ==
    IF ob \in LinkIds THEN c.lnk[ob].next_subject
    ELSE c.heads.next_subject[ob]

set_next_subject(c, ob, v) ==
    IF ob \in LinkIds THEN [c EXCEPT !.lnk[ob].next_subject = v]
    ELSE [c EXCEPT !.heads.next_subject[ob] = v]

\* Link.__new__, leaving prev_listener of the old head as it is
Link_new_no_prev(c, k, subject, listener) ==
    LET ns == c.heads.next_subject[listener]
        nl == c.heads.next_listener[subject]
        c1 == [c EXCEPT !.lnk[k] =
                    [made |-> TRUE, referent |-> listener,
                     subject |-> subject, prev_listener |-> subject,
                     prev_subject |-> None, next_subject |-> ns,
                     next_listener |-> nl]]
        c2 == IF ns # None THEN [c1 EXCEPT !.lnk[ns].prev_subject = k]
              ELSE c1
    IN  [c2 EXCEPT !.heads.next_subject[listener] = k,
                   !.heads.next_listener[subject] = k]

\* Link.__new__(cls, subject, listener): the new Link k becomes the head of
\* both lists
Link_new(c, k, subject, listener) ==
    LET ns == c.heads.next_subject[listener]
        nl == c.heads.next_listener[subject]
        c1 == [c EXCEPT !.lnk[k] =
                    [made |-> TRUE, referent |-> listener,
                     subject |-> subject, prev_listener |-> subject,
                     prev_subject |-> None, next_subject |-> ns,
                     next_listener |-> nl]]
        c2 == IF ns # None THEN [c1 EXCEPT !.lnk[ns].prev_subject = k]
              ELSE c1
        c3 == IF nl # None THEN [c2 EXCEPT !.lnk[nl].prev_listener = k]
              ELSE c2
    IN  [c3 EXCEPT !.heads.next_subject[listener] = k,
                   !.heads.next_listener[subject] = k]

\* Link.unlink(self)
Link_unlink(c, k) ==
    LET self == c.lnk[k]
        nxt == self.next_listener
        prev == self.prev_listener
        c1 == IF nxt # None THEN [c EXCEPT !.lnk[nxt].prev_listener = prev]
              ELSE c
        c2 == IF prev # None /\ get_next_listener(c1, prev) = k
              THEN set_next_listener(c1, prev, nxt) ELSE c1
        prev_s == self.prev_subject
        nxt_s == self.next_subject
        c3 == IF nxt_s # None
              THEN [c2 EXCEPT !.lnk[nxt_s].prev_subject = prev_s] ELSE c2
        head == IF prev_s = None THEN deref(c, k) ELSE prev_s
        c4 == IF head # None /\ get_next_subject(c3, head) = k
              THEN set_next_subject(c3, head, nxt_s) ELSE c3
    IN  [c4 EXCEPT !.lnk[k] =
            [self EXCEPT !.subject = None, !.next_subject = None,
                         !.prev_subject = None, !.next_listener = None,
                         !.prev_listener = None]]

\* the weak reference callbacks (_unlink_fn) of the Links of a listener that
\* is gone, from the i-th Link on
RECURSIVE unlink_all(_, _, _)
unlink_all(c, l, i) ==
    IF i > Len(LinkOrder) THEN c
    ELSE LET k == LinkOrder[i]
         IN  unlink_all(IF c.lnk[k].made /\ c.lnk[k].referent = l
                        THEN Link_unlink(c, k) ELSE c, l, i + 1)

\* the body of iter_listeners / iter_subjects from the top of the while loop
\* to the next yield or to the end of the loop
RECURSIVE iter_loop(_, _, _, _)
iter_loop(c, kind, link, fuel) ==
    IF link = None \/ fuel = 0
    THEN [link |-> None, ob |-> None, nxt |-> None, over |-> link # None]
    ELSE LET nxt == IF kind = "listeners" THEN c.lnk[link].next_listener
                    ELSE c.lnk[link].next_subject
             ob == IF kind = "listeners" THEN deref(c, link)
                   ELSE c.lnk[link].subject
         IN  IF ob # None
             THEN [link |-> link, ob |-> ob, nxt |-> nxt, over |-> FALSE]
             ELSE iter_loop(c, kind, nxt, fuel - 1)

\* the Links of a list from link on, following next_listener or next_subject
RECURSIVE chain(_, _, _, _)
chain(c, kind, link, fuel) ==
    IF link = None \/ fuel = 0 THEN <<>>
    ELSE <<link>> \o
         chain(c, kind,
               IF kind = "listeners" THEN c.lnk[link].next_listener
               ELSE c.lnk[link].next_subject, fuel - 1)

\* the list of a subject (its listeners) or of a listener (its subjects)
listeners_of(c, s) ==
    chain(c, "listeners", c.heads.next_listener[s], MaxLinks + 1)

subjects_of(c, l) ==
    chain(c, "subjects", c.heads.next_subject[l], MaxLinks + 1)

\* Link(subject, listener) for a listener that is alive
NewLink(s, l) ==
    /\ l \notin dead
    /\ \E i \in 1..MaxLinks :
        /\ ~lnk[LinkOrder[i]].made
        /\ \A j \in 1..(i - 1) : lnk[LinkOrder[j]].made
        /\ Install(Link_new(St, LinkOrder[i], s, l))

\* link.unlink() of a Link that was created, linked or not; an unlink of the
\* Link that a suspended generator holds as its next one is noted
Unlink(k) ==
    /\ lnk[k].made
    /\ Install([Link_unlink(St, k) EXCEPT
            !.it.cut = @ \/ (it.started /\ ~it.done /\ it.nxt = k
                                /\ lnk[k].subject # None)])

\* the last reference to a listener goes away: its weak references are
\* cleared and their callbacks unlink its Links; the listener of a generator
\* is held by the generator
Die(l) ==
    /\ l \notin dead
    /\ it.of # l \/ it.done
    /\ \E k \in LinkIds : lnk[k].made /\ lnk[k].referent = l
    /\ LET c1 == unlink_all([St EXCEPT !.dead = @ \cup {l}], l, 1)
       IN  Install([c1 EXCEPT
                !.it.cut = @ \/ (it.started /\ ~it.done /\ it.nxt # None
                                    /\ lnk[it.nxt].subject # None
                                    /\ lnk[it.nxt].referent = l)])

\* s.iter_listeners() or l.iter_subjects(): the generator is created, none of
\* its code runs yet
IterStart(kind, ob) ==
    /\ it.kind = None
    /\ ob \notin dead
    /\ \/ kind = "listeners" /\ ob \in Subjects
       \/ kind = "subjects" /\ ob \in Listeners
    /\ Install([St EXCEPT !.it = [NoIter EXCEPT !.kind = kind, !.of = ob]])

\* it.next(): the generator runs to its next yield or to its end
IterNext ==
    /\ it.kind # None /\ ~it.done
    /\ LET first == IF it.kind = "listeners"
                    THEN heads.next_listener[it.of]
                    ELSE heads.next_subject[it.of]
           r == iter_loop(St, it.kind, IF it.started THEN it.nxt ELSE first,
                          MaxLinks + 1)
           begun == [it EXCEPT
                        !.started = TRUE,
                        !.start = IF it.started THEN @
                                  ELSE chain(St, it.kind, first,
                                             MaxLinks + 1)]
       IN  /\ ~r.over
           /\ Install([St EXCEPT !.it =
                    IF r.link = None
                    THEN [begun EXCEPT !.done = TRUE, !.nxt = None]
                    ELSE [begun EXCEPT
                            !.nxt = r.nxt,
                            !.out = Append(@, [link |-> r.link,
                                               ob |-> r.ob])]])

\* Links are created and unlinked and listeners go away, in any order, while
\* one generator walks a list
NextLinks ==
    \/ \E s \in Subjects, l \in Listeners : NewLink(s, l)
    \/ \E k \in LinkIds : Unlink(k)
    \/ \E l \in Listeners : Die(l)
    \/ \E ob \in Subjects \cup Listeners : IterStart("listeners", ob)
    \/ \E ob \in Subjects \cup Listeners : IterStart("subjects", ob)
    \/ IterNext

SpecLinks == Init /\ [][NextLinks]_vars

\* ------------------------------------------------- blocks that terminate
\* the steps that Controller.atomically takes by itself once the user
\* function has been called: the function returns, the loop of _process
\* runs the queued cells and drops the empty layers, cleanup runs the hooks
BlockSteps ==
    \/ FuncReturn
    \/ ProcessEnter
    \/ ProcessReturn
    \/ ProcessFail
    \/ \E l \in Listeners : ProcessRun(l)
    \/ \E same, asc \in BOOLEAN : CellRuns(same, asc)
    \/ ProcessPopLayer
    \/ ProcessCommit
    \/ CommitStep
    \/ CleanupEnd

\* one block over the cells of a fixture
NextTerm ==
    \/ \E fx \in Fixtures : CellSetup(fx)
    \/ ~block_snap.taken /\ Atomically
    \/ \E l \in Listeners : CellSchedule(l)
    \/ UserSet(1, TRUE)
    \/ \E l \in Listeners : UserRun(l)
    \/ BlockSteps

\* a step taken while a block is in progress
InBlock == pc # "idle" /\ NextTerm

\* weak fairness of the steps of a block, WF_vars(InBlock), written out:
\* every state inside a block has a next step, so that ENABLED <<InBlock>>_vars
\* is pc # "idle"
Fair == []<>(pc = "idle") \/ []<><<pc # "idle">>_vars

\* the code goes on as long as it has a next step to take
SpecTerm == Init /\ [][NextTerm]_vars /\ Fair

\* ------------------------------------------------------------ properties
Count(seq, P(_)) == Cardinality({i \in 1..Len(seq) : P(seq[i])})

\* C3: after atomically has returned or raised, all controller scratch
\* state is empty, whatever was done inside the block.
C3_ScratchEmpty ==
    pc = "idle" =>
        /\ undo = <<>> /\ at_commit = <<>> /\ managers = <<>>
        /\ queues = EmptyMap /\ layers = <<>>
        /\ reads = {} /\ writes = {} /\ has_run = EmptyMap /\ to_retry = {}
        /\ current_listener = None /\ last_listener = None
        /\ last_notified = NoNotified /\ last_save = NoSave
        /\ ~readonly /\ ~in_cleanup /\ ~active

\* C5: every manager entered in a block is exited exactly once on every exit
\* path, in reverse order of entry, each __exit__ is handed the error in
\* flight, and after a raising __exit__ the rest still exit and the latest
\* error is the one atomically raises.
C5_ExitedOnce ==
    pc = "idle" =>
        /\ \A m \in Managers :
              Count(exits, LAMBDA x : x[1] = m) = enters[m]
        /\ \A i \in 1..Len(exits) :
              exits[i][1] = "m_raise" => result # None

\* C8: a function registered with on_undo from inside an undo callback
\* that rollback_to is running is never run.
C8_NoUndoDuringUndo == ~redo_ran

\* C10 (I1): every listener stored in queues[L] has layer L.
C10_QueueLayer ==
    \A L \in DOMAIN queues : \A l \in queues[L] : layer[l] = L

\* the errors that start in the user function, a rule or a commit hook
ErrInBlock == first_err \notin {None, "E_exit"}

Links(c) == <<c.next_subject, c.next_listener>>

\* C1 as claimed: once atomically has raised such an error, every cell value
\* and dependency link is what it was before the block began, whichever
\* round of the loop the change was made in.
C1_BackToBlockStart ==
    (pc = "idle" /\ result # None /\ ErrInBlock) =>
        /\ undo = <<>>
        /\ value = block_snap.value
        /\ Links(St) = Links(block_snap)

\* the state that the rollback of cleanup leaves behind
Restored ==
    /\ undo = <<>> /\ at_commit = <<>>
    /\ value = commit_snap.value
    /\ Links(St) = Links(commit_snap)

\* C1 as amended: when cleanup has rolled back after an error of the user
\* function, a rule or a commit hook, every undo-logged change made since
\* the last completed commit round (or since the block began, if there was
\* none) is undone: cell values, dependency links and pending hooks.
\* Changes of a round that was committed stay, and the queues, which
\* _process clears before the rollback, hold what the undo entries put back.
C1_BackToLastCommit ==
    [][(pc # "exit" /\ pc' = "exit" /\ typ' # None) => Restored']_vars

C1_Witness ==
    /\ pc = "idle" /\ result = "E_rule" /\ hook_log # <<>> /\ rb_len > 4
    /\ value = commit_snap.value /\ value # block_snap.value

\* C2 as claimed: a block that ends by raising has invoked none of the
\* functions registered with on_commit during it.
C2_NoHookIfRaised ==
    (pc = "idle" /\ result # None) => hook_log = <<>>

\* C2 as amended: once cleanup holds an error no commit hook is invoked any
\* more, and the hooks still pending when the user function or a rule raises
\* are dropped without being invoked; hooks run in an earlier commit round
\* or before the failing hook have run.
C2_NoHookAfterError ==
    [][/\ typ # None => hook_log' = hook_log
       /\ (pc \in {"user", "inner"} /\ typ' # None) =>
              (hook_log' = hook_log /\ at_commit' = <<>>)]_vars

C2_Witness ==
    pc = "idle" /\ result \in {"E_func", "E_rule"} /\ skipped > 0

\* C4 as claimed: in one atomic block a manager is entered at most once,
\* in whichever round the user function or a rule manages it.
C4_EnteredOncePerBlock ==
    pc = "user" => \A m \in Managers : enters[m] <= 1

\* C4 as amended: __enter__ is invoked only for a manager that is not in
\* managers, and records it there; while a manager is recorded, manage and
\* lock are no-ops.  cleanup empties managers at the end of every commit
\* round, so a later round of the same block may enter the manager again.
C4_EnteredOncePerRound ==
    [][\A m \in Managers :
          enters'[m] > enters[m] =>
              /\ m \notin Range(managers)
              /\ m \in Range(managers')
              /\ enters'[m] = enters[m] + 1]_vars

C4_Witness ==
    manage_noop /\ \E m \in Managers : enters[m] = 1 /\ m \in Range(managers)

\* the listeners of the non-empty queues, by layer
NonEmptyQ(q) == {<<L, l>> : L \in DOMAIN q, l \in Listeners} \cap
                {x \in (DOMAIN q) \X Listeners : x[2] \in q[x[1]]}

\* C6 as claimed: rollback_to(sp) returns queues, has_run, last_listener,
\* last_save, last_notified, at_commit, the undo length and the cell values
\* to what they were when sp was taken.
C6_RollbackRestoresAll ==
    rolled =>
        /\ NonEmptyQ(queues) = NonEmptyQ(snap.queues)
        /\ has_run = snap.has_run
        /\ last_listener = snap.last_listener /\ last_save = snap.last_save
        /\ last_notified = snap.last_notified
        /\ at_commit = snap.at_commit /\ Len(undo) = snap.sp
        /\ value = snap.value

QueuedAt(q, l, L) == L \in DOMAIN q /\ l \in q[L]

\* C6 as amended: rollback_to(sp) returns has_run, last_listener, last_save,
\* last_notified, at_commit, the undo length and the cell values to what
\* they were, and every listener whose layer has not been raised since sp is
\* in the queue of its layer exactly if it was at sp; a listener whose layer
\* was raised after sp (layer elevation is not undo-logged) may stay queued
\* under another layer.
C6_RollbackRestoresLogged ==
    rolled =>
        /\ \A l \in Listeners :
              layer[l] = snap.layer[l] =>
                  (QueuedAt(queues, l, layer[l])
                      <=> QueuedAt(snap.queues, l, layer[l]))
        /\ has_run = snap.has_run
        /\ last_listener = snap.last_listener /\ last_save = snap.last_save
        /\ last_notified = snap.last_notified
        /\ at_commit = snap.at_commit /\ Len(undo) = snap.sp
        /\ value = snap.value

C6_Witness ==
    rolled /\ has_run = snap.has_run
           /\ \E l \in Listeners : layer[l] # snap.layer[l]

\* C7: after rollback_to(sp) at_commit holds exactly the hooks registered
\* before sp, in order, and a hook that has been rolled back is not run at
\* commit.
C7_RollbackErasesCommits ==
    [][/\ rolled' => at_commit' = snap'.at_commit
       /\ Len(hook_log') > Len(hook_log) =>
              Last(hook_log').id \notin rolled_back]_vars

C7_Witness ==
    rolled /\ rolled_back # {} /\ at_commit # <<>>

\* C9 as claimed: atomically called from within cleanup fails instead of
\* running the function.
C9_NoRunInCleanup == reentrant = 0

\* C9 as amended: atomically called from a commit hook or from a manager's
\* __exit__ does not fail: the block is still active, so the call is a
\* re-entrant one and runs the function directly.
C9_RunsInCleanup ==
    /\ reentrant = Count(hook_log, LAMBDA e : e.h = "h_atomic")
                   + Count(exits, LAMBDA x : x[1] = "m_nest")
    /\ first_err # "NotReentrant"

C9_Witness == in_cleanup /\ active /\ reentrant > 0 /\ first_err = None

\* a list in heap order, as heapq keeps it
IsHeap(h) == \A i \in 2..Len(h) : h[i \div 2] <= h[i]

\* C11: in every reachable state layers is a min-heap whose elements are
\* exactly the keys of queues, each key once; cancelling the last listener
\* of a layer removes the layer from both, and so does the undoing of a
\* schedule.
C11_LayersHeapOfQueues ==
    /\ IsHeap(layers)
    /\ Range(layers) = DOMAIN queues
    /\ Cardinality(Range(layers)) = Len(layers)

\* a listener whose scheduling is still logged has left its queue without
\* being run, and another layer is still queued
C11_Witness ==
    /\ pc = "user" /\ layers # <<>>
    /\ \E l \in Listeners :
          /\ UCancel(l) \in Range(undo) /\ USchedule(l) \notin Range(undo)
          /\ l \notin Queued(St) /\ l \notin DOMAIN has_run

\* the loop of _process has drained the queues: the pulse is about to commit
PulseEnd == pc = "inner" /\ layers = <<>>

\* where the run of a listener that has run is logged
RunPos(l) == CHOOSE i \in 1..Len(undo) : undo[i] = UHasRunPop(l)

\* C12: at the end of a pulse, of two listeners whose runs survive the one
\* that changed a subject ran before the one that read it.
C12_WriterRunsFirst ==
    PulseEnd =>
        \A A \in DOMAIN has_run, B \in DOMAIN has_run :
            (A # B /\ prog[A].r \cap prog[B].w # {}) => RunPos(B) < RunPos(A)

\* how often the loop of _process has taken a listener out of its queue, as
\* far as the undo log still tells
Popped(l) == Cardinality({i \in 1..Len(undo) : undo[i] = USchedule(l)})

\* the reader ran first, was rolled back by a retry and ran again
C12_Witness ==
    /\ PulseEnd
    /\ \E A \in DOMAIN has_run, B \in DOMAIN has_run :
          A # B /\ prog[A].r \cap prog[B].w # {} /\ Popped(A) = 2

\* C13 (I4): a listener that was linked to a subject when the block began
\* has run exactly once by the end of the pulse if the subject was changed
\* by the user function or by the surviving run of another listener.
C13_DependentRunsOnce ==
    PulseEnd =>
        \A A \in Listeners, C \in Subjects :
            (/\ A \in Range(block_snap.next_listener[C])
             /\ \/ C \in wrote_ext
                \/ \E B \in (DOMAIN has_run) \ {A} : C \in prog[B].w)
            => A \in DOMAIN has_run

\* the listeners that the notifications of the surviving runs lead to,
\* starting from the listeners in F
RECURSIVE Reached(_)
Reached(F) ==
    LET G == F \cup {n[2] : n \in {m \in notes : m[1] \in F}}
    IN  IF G = F THEN F ELSE Reached(G)

\* a listener to be re-run whose own notifications lead back to it
TrueCycle ==
    \E A \in to_retry : A \in Reached({n[2] : n \in {m \in notes : m[1] = A}})

\* the loop of _process is about to call _retry
AtRetry == pc = "inner" /\ layers # <<>> /\ to_retry # {}

\* C20: cycle detection is exact. When the loop of _process finds
\* listeners to re-run, the pulse fails with CircularityError if and only
\* if one of them was re-triggered through a chain of write notifications
\* that leads back to itself; any other re-trigger raises no
\* CircularityError.
C20_CycleIffError ==
    [][AtRetry => (TrueCycle <=> first_err' = "CircularityError")]_vars

\* an atomic block has returned without an error
Returned_ok == pc = "idle" /\ block_snap.taken /\ result = None

\* C14: after atomically returns successfully the graph is fully settled:
\* every rule cell that has had its first run and is not discrete holds the
\* value that its rule yields on the current values of the cells it reads.
C14_Settled ==
    Returned_ok =>
        \A l \in Listeners :
            (cls[l] = "ReadOnlyCell" /\ ~needs_init[l] /\ reset[l] = NoReset)
            => value[l] = RuleValue(St, l)

\* a step in which the user function, or the rule of the test listener,
\* assigns the Value cell the value it holds
EqualWrite ==
    \/ \E v \in Inputs, same \in BOOLEAN : v = value["s2"] /\ UserSet(v, same)
    \/ /\ stack # <<>> /\ rule[Last(stack).listener] = "set1"
       /\ value["s2"] = 1
       /\ \E same, asc \in BOOLEAN : CellRuns(same, asc)

\* C15: writing a Value cell to a value equal to its current value does not
\* call changed and does not schedule any listener.
C15_EqualWriteSilent ==
    [][EqualWrite => /\ "s2" \in chg' => "s2" \in chg
                     /\ queues' = queues /\ writes' = writes
                     /\ value'["s2"] = value["s2"]]_vars

\* an equal value was written to a cell that has a dependent: the writer is
\* noted in _set_by, and changed was not called
C15_Witness ==
    /\ pc = "user" /\ stack = <<>> /\ set_by["s2"] = None
    /\ "s2" \notin chg /\ next_listener["s2"] # <<>>
    /\ value["s2"] = 2 /\ queues = EmptyMap

\* another writer has assigned the Value cell a value other than v in
\* this pulse
OtherWrote(v) ==
    \E p \in sets : p[1] # current_listener /\ p[2] # v

\* C16: Value.set_value raises InputConflict exactly when the new value
\* differs from the current one and another writer has already written the
\* cell to a different value in this pulse; the cell then keeps its value,
\* and a writer of the value the cell holds succeeds.
C16_ConflictIff ==
    (pc = "user" /\ active) =>
        \A v \in Inputs :
            LET r == set_value(St, "s2", v, TRUE) IN
            /\ (r.err = "InputConflict") <=> (v # value["s2"] /\ OtherWrote(v))
            /\ r.err = "InputConflict" => r.value["s2"] = value["s2"]
            /\ v = value["s2"] => r.err = None

\* the values that the rule of l has seen in this block, in order
SeenBy(l) ==
    LET F[i \in 0..Len(log)] ==
            IF i = 0 THEN <<>>
            ELSE IF log[i][1] = l THEN Append(F[i - 1], log[i][2])
            ELSE F[i - 1]
    IN  F[Len(log)]

\* the rule cells that depended on the Value cell when the block began
Dependents == Range(block_snap.next_listener["s2"])

\* C17: a discrete cell set to X, other than its reset value, is observed as
\* X by its dependents in that pulse and as the reset value in the next
\* recalculation: each dependent runs once seeing X and once more seeing the
\* reset value, and when atomically returns the cell holds its reset value.
C17_DiscreteSeenThenReset ==
    reset["s2"] # NoReset =>
        /\ (PulseEnd /\ value["s2"] # reset["s2"]) =>
                \A l \in Dependents :
                    /\ l \in DOMAIN has_run
                    /\ SeenBy(l) # <<>>
                    /\ Last(SeenBy(l)) = value["s2"]
        /\ Returned_ok =>
                /\ value["s2"] = reset["s2"]
                /\ \A l \in Dependents :
                      \/ SeenBy(l) = <<>>
                      \/ SeenBy(l) = <<reset["s2"]>>
                      \/ /\ Len(SeenBy(l)) = 2
                         /\ SeenBy(l)[1] # reset["s2"]
                         /\ SeenBy(l)[2] = reset["s2"]

\* a step in which a rule cell that has had its first run runs again and
\* its rule returns the value the cell holds
EqualRerun ==
    /\ pc = "user" /\ stack # <<>>
    /\ cls[Last(stack).listener] = "ReadOnlyCell"
    /\ ~needs_init[Last(stack).listener]
    /\ RuleValue(St, Last(stack).listener) = value[Last(stack).listener]
    /\ \E same, asc \in BOOLEAN : CellRuns(same, asc)

\* C18: a rule cell whose rule returns a value equal to its stored value
\* when re-run does not call changed, so none of its listeners is scheduled
\* or notified in that pulse.
C18_EqualRerunSilent ==
    [][EqualRerun =>
            /\ Last(stack).listener \in chg' => Last(stack).listener \in chg
            /\ queues' = queues /\ notes' = notes /\ to_retry' = to_retry
            /\ value' = value]_vars

\* the Value cell was changed, the rule cell t0 ran again and returned the
\* value it held, and its listener t1 has not run in the pulse
C18_Witness ==
    /\ PulseEnd /\ "t0" \in DOMAIN has_run /\ "t0" \notin chg
    /\ "t1" \in Range(block_snap.next_listener["t0"])
    /\ value["s2"] # block_snap.value["s2"]
    /\ "t1" \notin DOMAIN has_run

\* the rule cells of the fixture
RuleCells == {l \in Listeners : cls[l] # "TestListener"}

\* C19: a rule cell whose last run recorded no dependency, and which is not
\* discrete or holds its reset value, is a ConstantRule when the atomic
\* block has returned; from then on its rule is not run, dirty() answers
\* false and its value does not change; and a discrete rule cell is not a
\* constant while it holds a value other than its reset value.
C19_BecomesConstant ==
    [][/\ Returned_ok =>
            \A l \in RuleCells :
                (/\ ~needs_init[l] /\ next_subject[l] = <<>>
                 /\ reset[l] = NoReset \/ value[l] = reset[l])
                => cls[l] = "ConstantRule"
       /\ \A l \in RuleCells :
            cls[l] = "ConstantRule" =>
                /\ reset[l] = NoReset \/ value[l] = reset[l]
                /\ ~dirty(St, l)
                /\ cls'[l] = "ConstantRule"
                /\ value'[l] = value[l]
                /\ Len(SeenBy(l)') <= Len(SeenBy(l))]_vars

\* the discrete rule cell t0 has become a constant holding its reset value,
\* and a later block has run a rule that reads it
C19_Witness ==
    /\ Returned_ok /\ cls["t0"] = "ConstantRule" /\ reset["t0"] # NoReset
    /\ value["t0"] = reset["t0"] /\ rule["t0"] = None
    /\ SeenBy("t1") = <<reset["t0"]>>

\* C21: readonly is true only while a listener of layer Max is being run; it
\* is false whenever no listener is being run, before and after every run,
\* whether the run returned or raised.
C21_ReadonlyOnlyInObserver ==
    /\ readonly => ObserverRuns
    /\ stack = <<>> => ~readonly
C21_Witness == readonly /\ ObserverRuns /\ pc = "user"

\* C22: at every point of an observer's run, also after the observer has
\* read a rule cell that had not run yet and that was run nested inside it,
\* a call of changed fails (it does not return to the rule).
C22_ObserverCannotChange ==
    [][ObserverRuns =>
            ~(\E s \in Subjects : RuleChanged(s) /\ pc' = "user")]_vars

\* the numbers of the calls in a queue, in queue order
Ids(q) == [i \in DOMAIN q |-> q[i][1]]

\* the numbers in S, in ascending order
RECURSIVE Ascending(_)
Ascending(S) ==
    IF S = {} THEN <<>>
    ELSE LET m == CHOOSE x \in S : \A y \in S : x <= y
         IN  <<m>> \o Ascending(S \ {m})

\* the calls made and not rolled back, in the order they were made
Surviving(n, u) == Ascending((1..n) \ u)

IsPrefix(a, b) == Len(a) <= Len(b) /\ a = SubSeq(b, 1, Len(a))

C24_UndoneNeverRun ==
    /\ rolled => /\ (snap.ncalls + 1)..ncalls \subseteq undone
                 /\ call_queue = snap.call_queue
    /\ (pc = "idle" /\ block_snap.taken /\ result # None) =>
            (block_snap.ncalls + 1)..ncalls \subseteq undone
    /\ undone \cap Range(executed) = {}
    /\ executed \o Ids(call_queue) = Surviving(ncalls, undone)

\* as in testUndoOfCall: call 1, savepoint, call 2, rollback, call 3, and a
\* flush after the block: 1 and 3 were executed, 2 never
C24_Witness ==
    /\ pc = "idle" /\ executed = <<1, 3>> /\ undone = {2}
    /\ call_queue = <<>> /\ result = None

\* C25: after a pulse in which user code has assigned the Cell, the Cell
\* holds the value assigned, whether or not the cell its rule reads changed
\* in that pulse too, and the rule cell that reads the Cell holds the value
\* computed from the value assigned.
C25_WriteOverrides ==
    (pc = "idle" /\ block_snap.taken /\ override # NotSet) =>
        /\ result = None
        /\ value["t0"] = override
        /\ ~needs_init["t1"] => value["t1"] = override + 1

\* C29: no subject is linked twice to the same listener, whatever the rules
\* read, in whatever run, and whatever was rolled back.
C29_NoDuplicateLink ==
    \A x \in AllSubjects, l \in Listeners :
        /\ Count(next_listener[x], LAMBDA y : y = l) <= 1
        /\ Count(next_subject[l], LAMBDA y : y = x) <= 1

\* a listener that was linked to a subject before the block has run again,
\* has read that subject and another one, and is linked once to each
C29_Witness ==
    \E l \in Listeners, x \in Subjects :
        /\ pc = "inner" /\ l \in DOMAIN has_run
        /\ x \in Range(block_snap.next_subject[l])
        /\ Range(next_subject[l]) = Subjects /\ prog[l].r = Subjects

\* C30: once a cell has run, its layer is above the layer of every other
\* subject it is linked to, and the read of its own value by its rule does
\* not count: the cell that reads a Value cell and itself has layer 1, after
\* its first run and after every later run.
C30_SelfReadNotCounted ==
    stack = <<>> =>
        \A l \in Listeners :
            (cls[l] = "Cell" /\ ~needs_init[l]) =>
                /\ \A x \in Range(next_subject[l]) \ {l} :
                        layer[l] > layer_of(St, x)
                /\ layer[l] = 1

NoRepeat(q) == \A i, j \in DOMAIN q : i # j => q[i] # q[j]

\* C27: whatever Links were created and unlinked, every Link in the list of
\* a subject has that subject in its subject field, every Link in the list
\* of a listener is in the list of its subject, each Link's prev pointer is
\* the Link before it in the list (the subject itself, or None, for the
\* head), and a Link that was unlinked is in no list.
C27_LinksConsistent ==
    /\ \A s \in Subjects :
        LET q == listeners_of(St, s)
        IN  /\ NoRepeat(q)
            /\ \A i \in DOMAIN q :
                /\ lnk[q[i]].subject = s
                /\ lnk[q[i]].prev_listener = IF i = 1 THEN s ELSE q[i - 1]
    /\ \A l \in Listeners \ dead :
        LET q == subjects_of(St, l)
        IN  /\ NoRepeat(q)
            /\ \A i \in DOMAIN q :
                /\ lnk[q[i]].subject \in Subjects
                /\ q[i] \in Range(listeners_of(St, lnk[q[i]].subject))
                /\ lnk[q[i]].prev_subject = IF i = 1 THEN None ELSE q[i - 1]
    /\ \A k \in LinkIds :
        (lnk[k].made /\ lnk[k].subject = None) =>
            /\ \A s \in Subjects : k \notin Range(listeners_of(St, s))
            /\ \A l \in Listeners \ dead : k \notin Range(subjects_of(St, l))

\* a Link was unlinked from the middle of the list of a subject with three
\* listeners, and from the head of the list of its listener
C27_Witness ==
    /\ listeners_of(St, "s1") = <<"k3", "k1">>
    /\ lnk["k2"].made /\ lnk["k2"].subject = None
    /\ lnk["k2"].referent \notin dead
    /\ \E l \in Listeners \ dead : Len(subjects_of(St, l)) = 1

\* C28: when a generator of iter_listeners or iter_subjects has ended, it
\* has yielded the peer of every Link that was in the list when it began and
\* is still in it, whatever was unlinked between its steps, in the order of
\* the list, and no Link's peer twice.
C28_IterationToleratesUnlinks ==
    it.done =>
        LET yielded == [i \in DOMAIN it.out |-> it.out[i].link]
            InList(k) == lnk[k].subject # None
            Yielded(k) == k \in Range(yielded)
        IN  /\ \A k \in Range(it.start) : InList(k) => Yielded(k)
            /\ SelectSeq(SelectSeq(it.start, Yielded), InList)
                    = SelectSeq(yielded, InList)
            /\ NoRepeat(yielded)

C31_LayerNeverDecreases ==
    [][\A l \in Listeners : layer'[l] >= layer[l]]_vars

\* a rollback to a savepoint has left a listener above the layer it had
\* when the savepoint was taken
C31_Witness ==
    /\ rolled /\ snap.taken
    /\ \E l \in Listeners : layer[l] > snap.layer[l]

\* a run that the loop of _process started returns without an error
TopRunDone == pc = "user" /\ Len(stack) = 1 /\ pc' = "inner"

\* C32: when a top-level run of listener L completes, the subjects linked to
\* L are exactly the subjects L has read in that run and reads is empty; and
\* a rollback to the savepoint taken before the links were reconciled gives
\* L the set of subjects it was linked to before.
C32_LinksAreReads ==
    [][TopRunDone =>
        LET L == Last(stack).listener
            back == rollback_to(St', last_save)
        IN  /\ Range(next_subject'[L]) = prog[L].r
            /\ \A s \in Subjects : (L \in Range(next_listener'[s])) <=> s \in prog[L].r
            /\ reads' = {}
            /\ back.err = None
            /\ Range(back.next_subject[L]) = Range(next_subject[L])
            /\ \A s \in Subjects :
                  Range(back.next_listener[s]) = Range(next_listener[s])]_vars

\* a listener has completed a run that dropped a link to a subject it did
\* not read again and made a link to a subject it read for the first time
C32_Witness ==
    /\ pc = "inner" /\ block_snap.taken /\ first_err = None
    /\ \E L \in DOMAIN has_run :
          /\ has_run[L] = L
          /\ Range(block_snap.next_subject[L]) \ Range(next_subject[L]) # {}
          /\ Range(next_subject[L]) \ Range(block_snap.next_subject[L]) # {}
          /\ Range(next_subject[L]) = prog[L].r

\* C33: when _retry is called for a listener T that has run in this pulse
\* and finds no cycle, the runs of T and of every top-level listener that
\* ran after T are undone, last_listener and last_save are those of the run
\* before T (None if T was the first), to_retry is empty, and every
\* listener whose run was undone is back in the queue of its layer.
C33_RetryUndoesAndRequeues ==
    AtRetry =>
        LET r == _retry(St)
            gone == {l \in DOMAIN has_run : l \notin DOMAIN r.has_run}
        IN  r.err = None =>
                /\ to_retry \cap DOMAIN r.has_run = {}
                /\ r.to_retry = {}
                /\ r.last_listener \in DOMAIN r.has_run \cup {None}
                /\ (r.last_listener = None) = (r.last_save = NoSave)
                /\ (r.last_listener = None) = (DOMAIN r.has_run = {})
                /\ \A l \in gone :
                      /\ r.layer[l] \in DOMAIN r.queues
                      /\ l \in r.queues[r.layer[l]]

\* how many runs of listener l the undo log holds: the runs not undone
Runs(l) == Cardinality({i \in 1..Len(undo) : undo[i] = UHasRunPop(l)})

\* C34: no listener has two surviving runs in one pulse, since run() of a
\* listener found in has_run does not call its rule; and schedule() of a
\* listener that has run in this pulse only inside the run of another
\* listener adds nothing to to_retry.
C34_OneRunNoNestedRetry ==
    /\ \A l \in Listeners : Runs(l) <= 1
    /\ \A l \in DOMAIN has_run :
          (/\ active /\ ~readonly /\ has_run[l] # l
           /\ \A i \in DOMAIN stack : stack[i].listener # l) =>
              LET r == schedule(St, l, NoLayer, FALSE)
              IN  r.err = None => r.to_retry = to_retry

\* C35: when atomically returns without an error no listener is left in a
\* queue: whatever was scheduled in the block, by the function, by a rule,
\* by a commit hook or by the __exit__ of a manager, has been run.
C35_NoneLeftQueued ==
    (pc = "idle" /\ block_snap.taken /\ result = None) =>
        /\ Queued(St) = {}
        /\ layers = <<>>

\* C36: when an atomic block has ended, committed or rolled back, _set_by
\* of every cell is the unset sentinel again, so that whoever has set a
\* cell in one block has no part in the next one.
C36_SetByCleared ==
    pc = "idle" => \A s \in AllSubjects : set_by[s] = Sentinel

\* a block in which the Value cell was assigned a new value has committed,
\* and the _finish hook of the cell has run
C36_Witness ==
    /\ pc = "idle" /\ block_snap.taken /\ result = None
    /\ value["s2"] # block_snap.value["s2"]
    /\ \E i \in 1..Len(hook_log) : hook_log[i].h = FinishHook["s2"]

\* C39: a call of changed(subject) that fails with the RuntimeError of the
\* read-only phase has not added the subject to writes and has scheduled
\* no listener.
C39_FailedChangeNoEffect ==
    (pc = "user" /\ readonly) =>
        \A s \in Subjects :
            LET r == changed(St, s)
            IN  r.err = "RuntimeError" =>
                    /\ r.writes = writes
                    /\ r.queues = queues
                    /\ r.layers = layers

\* C37: EventLoop.run honours stop and terminates. Once a queued call has
\* called stop() no further call is executed; when the call queue has been
\* drained and no timer event is scheduled the test of the loop fails, so
\* that run returns although nobody has called stop; and after run has
\* returned running and stop_requested are both False.
C37_RunStopsAndReturns ==
    /\ (running /\ stop_requested) => Len(executed) = stopped_at
    /\ ~running => ~stop_requested
    /\ (running /\ call_queue = <<>> /\ next_event_time(St) = None) =>
            ~loop_test(St)

\* C38: the rules of the cells form no cycle and none calls repeat(); then
\* every atomic block terminates: the loop of _process comes to a state
\* with no layer and no commit hook left, and atomically returns.
C38_BlockTerminates ==
    (pc # "idle") ~> (pc = "idle" /\ layers = <<>> /\ at_commit = <<>>)

\* a block that ran its rules, made a second pass for the commit hooks and
\* returned
C38_Witness ==
    /\ pc = "idle" /\ block_snap.taken /\ result = None
    /\ Len(hook_log) >= 2 /\ layers = <<>> /\ at_commit = <<>>

====
